---- MODULE Spec2Model ----
(***************************************************************************)
(* Heap-object visiting (src/heap/objects-visiting.h) and the atomic       *)
(* primitives it rests on (src/base/atomic-utils.h).                       *)
(*                                                                         *)
(* The module holds several independent state machines over one set of     *)
(* variables; each specification moves only its own variables:             *)
(*   Spec      VisitorDispatchTable: Register, CopyFrom, GetVisitorById    *)
(*   SpecBits  AtomicValue<T>::SetBits called by concurrent threads        *)
(*   SpecSet   AtomicEnumSet<E> Add/Remove/Intersect/Contains              *)
(*   SpecId    the visitor-identity assignment                             *)
(*   SpecWeak  VisitWeakList                                               *)
(*   SpecVisit the body visitors: FixedBodyVisitor, FlexibleBodyVisitor,   *)
(*             JSApiObjectVisitor and HeapVisitor's defaults               *)
(*   SpecNumber AtomicNumber<T> Increment and Decrement                    *)
(*   SpecAtomic32 AsAtomic32::SetBits                                      *)
(*   SpecEnum  AtomicEnumSet<E> with one caller, every operation           *)
(*   SpecRange Register and GetVisitorById with ids in and out of range    *)
(*   SpecScan  a linear scan with StaticNewSpaceVisitor::IterateBody       *)
(*   SpecPointers StaticNewSpaceVisitor::VisitPointers                     *)
(*   SpecBit   AtomicValue<T>::SetBit and ClearBit                         *)
(*   SpecCopy  CopyFrom beside a reader that resolves two ids              *)
(***************************************************************************)
EXTENDS Integers, Sequences, FiniteSets, TLC

VARIABLES
    \* VisitorDispatchTable
    callbacks_,   \* [table -> [VisitorId -> word]]: the callbacks_ arrays
    copy_pc,      \* position of the thread running dst.CopyFrom(src)
    copy_i,       \* CopyFrom's loop variable i
    pre,          \* history: callbacks_ of both tables when CopyFrom was entered
    registered,   \* history: per slot, the callback of its latest Register
    got,          \* last result of GetVisitorById on dst, or NoRead
    \* AtomicValue<T>
    value_,       \* the cell
    sb,           \* per thread: its SetBits call (pc, bits, mask, old_value)
    value0,       \* history: the cell when the first call started
    \* AtomicEnumSet<E>
    bits_,        \* the set's storage word
    es,           \* per thread: its current call and how many calls are left
    lin,          \* history: the calls in the order their write or read took effect
    bits0,        \* history: the word the set was constructed with
    \* visitor-identity assignment
    idIn,         \* the arguments of the call
    idOut,        \* its result, or NoId before the call
    \* VisitWeakList
    wl,           \* the heap of list nodes and the locals of the traversal
    \* body visitors (FixedBodyVisitor, FlexibleBodyVisitor, JSApiObjectVisitor, HeapVisitor)
    vis,          \* the object, the visit under way and the visits completed
    \* AtomicNumber<T>
    num,          \* the cell, the calls each thread has left, the calls made
    \* AsAtomic32::SetBits
    a32,          \* the cell and each thread's call
    \* AtomicEnumSet<E>, one caller
    sq,           \* the set, the last call, its result and the set before it
    \* VisitorDispatchTable called with ids in and out of range
    rg,           \* the table and the word behind it, the build, the last call
    \* a linear scan of a region with StaticNewSpaceVisitor::IterateBody
    sc,           \* the region, the cursor and the visits made
    \* StaticNewSpaceVisitor::VisitPointers
    vp,           \* the arguments, the loop variable and the calls made
    \* AtomicValue<T>::SetBit and ClearBit
    bt,           \* the cell, the cell at construction and the calls made
    \* CopyFrom beside a reader that resolves two ids
    cp,           \* both tables, the loop variable and the reader's two results
    lp            \* a cell, and each thread's position in its retry loop

tableVars == <<callbacks_, copy_pc, copy_i, pre, registered, got>>
bitsVars  == <<value_, sb, value0>>
setVars   == <<bits_, es, lin, bits0>>
idVars    == <<idIn, idOut>>
weakVars  == <<wl>>
visitVars == <<vis>>
numberVars == <<num>>
atomic32Vars == <<a32>>
enumVars == <<sq>>
rangeVars == <<rg>>
scanVars == <<sc>>
pointersVars == <<vp>>
bitVars == <<bt>>
copyVars == <<cp>>
loopVars == <<lp>>
settledVars == <<tableVars, bitsVars, setVars, idVars, weakVars, visitVars, numberVars, atomic32Vars, enumVars, rangeVars>>
vars == <<tableVars, bitsVars, setVars, idVars, weakVars, visitVars, numberVars, atomic32Vars, enumVars, rangeVars, scanVars, pointersVars, bitVars, copyVars, loopVars>>

\* A state machine that is not running keeps its variables at this value.
Idle == "idle"

(***************************************************************************)
(* VisitorId (objects-visiting.h:28-79)                                    *)
(***************************************************************************)
VISITOR_ID_LIST == <<"AllocationSite", "ByteArray", "BytecodeArray", "Cell", "Code", "ConsString", "DataObject", "FixedArray", "FixedDoubleArray", "FixedFloat64Array", "FixedTypedArrayBase", "FreeSpace", "JSApiObject", "JSArrayBuffer", "JSFunction", "JSObject", "JSObjectFast", "JSRegExp", "JSWeakCollection", "Map", "NativeContext", "Oddball", "PropertyCell", "SeqOneByteString", "SeqTwoByteString", "SharedFunctionInfo", "ShortcutCandidate", "SlicedString", "SmallOrderedHashMap", "SmallOrderedHashSet", "Struct", "Symbol", "ThinString", "TransitionArray", "WeakCell">>

\* The enumerator after the list: the number of ids.
kVisitorIdCount == Len(VISITOR_ID_LIST)

\* The enumerator kVisit<name>: its position in the list, from 0.
kVisit(name) == (CHOOSE k \in 1..Len(VISITOR_ID_LIST) : VISITOR_ID_LIST[k] = name) - 1

VisitorId == 0..(kVisitorIdCount - 1)

(***************************************************************************)
(* VisitorDispatchTable (objects-visiting.h:97-122)                        *)
(***************************************************************************)
\* The two tables of the model: dst.CopyFrom(src).
Tables == {"dst", "src"}

\* Words a slot can hold.  The tables are static members, so a slot never
\* written holds the zero word.  Callbacks are addresses of functions.
kZeroWord == 0
UnreachableVisitor == 1
VisitDataObject == 2
Callbacks == {UnreachableVisitor, VisitDataObject}

\* The ids the model's callers pass to Register and GetVisitorById: the
\* first id, the id the new-space visitor leaves unhandled, and the last id.
SampleIds == {kVisit("AllocationSite"), kVisit("Code"), kVisit("WeakCell")}

\* The history's mark of a slot no Register call has named.
NotRegistered == 0 - 1

NoRead == [id |-> -1, val |-> -1, during |-> FALSE, unwritten |-> FALSE]

\* A store that a byte-copying loop has only half done: the low half of the
\* word is new, the high half is still the cell's.
Relaxed_Store_Bytewise(cell, value) == (cell \div 2) * 2 + (value % 2)

\* base::Relaxed_Store(&cell, value): one atomic store of the whole word.
Relaxed_Store(cell, value) == value

\* A store that also clobbers the element after the one it names.
StoreElement_Wide(array, id, word) == [k \in DOMAIN array |-> IF k = id \/ k = id + 1 THEN word ELSE array[k]]

\* callbacks_[id] = callback: a plain store to one element of the array.
StoreElement(array, id, word) == [array EXCEPT ![id] = word]

\* Register(id, callback)
Register(t, id, callback) ==
    /\ copy_pc = Idle
    /\ callbacks_' = [callbacks_ EXCEPT ![t] = StoreElement(@, id, callback)]
    /\ registered' = [registered EXCEPT ![t][id] = callback]
    /\ UNCHANGED <<copy_pc, copy_i, pre, got>>
    /\ UNCHANGED <<bitsVars, setVars, idVars, weakVars, visitVars, numberVars, atomic32Vars, enumVars, rangeVars, scanVars, pointersVars, bitVars, copyVars, loopVars>>

\* A loop that stops one slot early.
CopyFromLoopCond_Short(i) == i < kVisitorIdCount - 1

\* The loop condition of CopyFrom.
CopyFromLoopCond(i) == i < kVisitorIdCount

\* The slot of `other` that iteration i copies.
CopyFromSource(other, i) == other[i]

\* dst.CopyFrom(src) is entered: int i = 0.
CopyFromCall ==
    /\ copy_pc = Idle
    /\ copy_pc' = "loop"
    /\ copy_i' = 0
    /\ pre' = callbacks_
    /\ UNCHANGED <<callbacks_, registered, got>>
    /\ UNCHANGED <<bitsVars, setVars, idVars, weakVars, visitVars, numberVars, atomic32Vars, enumVars, rangeVars, scanVars, pointersVars, bitVars, copyVars, loopVars>>

\* One iteration: base::Relaxed_Store(&callbacks_[i], other->callbacks_[i]); i++
CopyFromStep ==
    /\ copy_pc = "loop"
    /\ CopyFromLoopCond(copy_i)
    /\ callbacks_' = [callbacks_ EXCEPT !["dst"][copy_i] =
                         Relaxed_Store(@, CopyFromSource(callbacks_["src"], copy_i))]
    /\ copy_i' = copy_i + 1
    /\ UNCHANGED <<copy_pc, pre, registered, got>>
    /\ UNCHANGED <<bitsVars, setVars, idVars, weakVars, visitVars, numberVars, atomic32Vars, enumVars, rangeVars, scanVars, pointersVars, bitVars, copyVars, loopVars>>

\* The loop condition fails: CopyFrom returns.
CopyFromReturn ==
    /\ copy_pc = "loop"
    /\ ~CopyFromLoopCond(copy_i)
    /\ copy_pc' = "done"
    /\ UNCHANGED <<callbacks_, copy_i, pre, registered, got>>
    /\ UNCHANGED <<bitsVars, setVars, idVars, weakVars, visitVars, numberVars, atomic32Vars, enumVars, rangeVars, scanVars, pointersVars, bitVars, copyVars, loopVars>>

\* GetVisitorById(id): reinterpret_cast<Callback>(callbacks_[id]), one load
\* of the aligned word, with no check of what the slot holds.
GetVisitorById(t, id) == callbacks_[t][id]

\* History: no Register has named slot id of dst and CopyFrom has not stored to it.
Unwritten(id) ==
    /\ registered["dst"][id] = NotRegistered
    /\ copy_pc = Idle \/ (copy_pc = "loop" /\ copy_i <= id)

\* A reader thread resolves id on dst, at any time, and the call returns.
ReadVisitor(id) ==
    /\ got' = [id |-> id, val |-> GetVisitorById("dst", id),
               during |-> copy_pc = "loop", unwritten |-> Unwritten(id)]
    /\ UNCHANGED <<callbacks_, copy_pc, copy_i, pre, registered>>
    /\ UNCHANGED <<bitsVars, setVars, idVars, weakVars, visitVars, numberVars, atomic32Vars, enumVars, rangeVars, scanVars, pointersVars, bitVars, copyVars, loopVars>>

(***************************************************************************)
(* AtomicValue<T> (atomic-utils.h:112-176)                                 *)
(***************************************************************************)
\* The width of T in bits.  A value of T is the set of the positions of its
\* 1 bits, bit 0 the least significant: 0b0101 is {0, 2}.
WordBits == 4
BitIndex == 0..(WordBits - 1)
Word == SUBSET BitIndex

\* a & b, a | b and ~a on T.
BitAnd(a, b) == a \cap b
BitOr(a, b) == a \cup b
BitNot(a) == BitIndex \ a

\* The threads that call SetBits on the one cell.
SetBitsThreads == {"t1", "t2"}

\* The masks the callers pass: bit fields of one or two adjacent bits.
FieldMasks == {f \in {lo..hi : lo \in BitIndex, hi \in BitIndex} : Cardinality(f) \in {1, 2}}

\* The (bits, mask) arguments the callers pass; all satisfy the DCHECK_EQ.
SetBitsArgs == {a \in Word \X FieldMasks : BitAnd(a[1], BitNot(a[2])) = {}}

\* A thread's call: its position, arguments and locals, and (history) whether
\* a swap of the call has failed.
NoCall == [pc |-> "idle", bits |-> {}, mask |-> {}, old_value |-> {}, new_value |-> {}, retried |-> FALSE]

\* A new value that keeps the masked bits of the old one.
NewValue_NoClear(old_value, bits, mask) == BitOr(old_value, bits)

\* new_value = (old_value & ~mask) | bits
NewValue(old_value, bits, mask) == BitOr(BitAnd(old_value, BitNot(mask)), bits)

\* A store that does not compare: it always writes and reports success.
CompareAndSwap_Blind(cell, old_value, new_value) == [cell |-> new_value, prev |-> old_value]

\* base::Release_CompareAndSwap(&cell, old_value, new_value): the cell after
\* the call and the value the call returns (the cell before it).
CompareAndSwap(cell, old_value, new_value) == [cell |-> IF cell = old_value THEN new_value ELSE cell, prev |-> cell]

\* Value(): base::Acquire_Load(&value_)
Value == value_

\* A test that takes every swap for a success, so the loop never retries.
TrySetValue_IgnoreFailure(old_value, new_value) == TRUE

\* TrySetValue(old_value, new_value): whether the swap returned old_value.
TrySetValue(old_value, new_value) == CompareAndSwap(value_, old_value, new_value).prev = old_value

\* A thread enters SetBits(bits, mask); DCHECK_EQ(bits & ~mask, 0) holds.
SetBitsCall(t, bits, mask) ==
    /\ sb[t].pc = "idle"
    /\ BitAnd(bits, BitNot(mask)) = {}
    /\ sb' = [sb EXCEPT ![t] = [NoCall EXCEPT !.pc = "load", !.bits = bits, !.mask = mask]]
    /\ UNCHANGED <<value_, value0>>
    /\ UNCHANGED <<tableVars, setVars, idVars, weakVars, visitVars, numberVars, atomic32Vars, enumVars, rangeVars, scanVars, pointersVars, bitVars, copyVars, loopVars>>

\* The loop body: old_value = Value(); new_value = (old_value & ~mask) | bits
SetBitsLoad(t) ==
    /\ sb[t].pc = "load"
    /\ sb' = [sb EXCEPT ![t].pc = "cas",
                        ![t].old_value = Value,
                        ![t].new_value = NewValue(Value, sb[t].bits, sb[t].mask)]
    /\ UNCHANGED <<value_, value0>>
    /\ UNCHANGED <<tableVars, setVars, idVars, weakVars, visitVars, numberVars, atomic32Vars, enumVars, rangeVars, scanVars, pointersVars, bitVars, copyVars, loopVars>>

\* The loop condition: while (!TrySetValue(old_value, new_value)); the swap
\* and its test are one atomic step.
SetBitsTrySetValue(t) ==
    /\ sb[t].pc = "cas"
    /\ value_' = CompareAndSwap(value_, sb[t].old_value, sb[t].new_value).cell
    /\ sb' = [sb EXCEPT ![t].pc = IF TrySetValue(sb[t].old_value, sb[t].new_value) THEN "done" ELSE "load",
                        ![t].retried = @ \/ ~TrySetValue(sb[t].old_value, sb[t].new_value)]
    /\ UNCHANGED value0
    /\ UNCHANGED <<tableVars, setVars, idVars, weakVars, visitVars, numberVars, atomic32Vars, enumVars, rangeVars, scanVars, pointersVars, bitVars, copyVars, loopVars>>

\* AtomicValue(T initial), any initial value.
BitsInit ==
    /\ value_ \in Word
    /\ value0 = value_
    /\ sb = [t \in SetBitsThreads |-> NoCall]

BitsNext ==
    \/ \E t \in SetBitsThreads, a \in SetBitsArgs : SetBitsCall(t, a[1], a[2])
    \/ \E t \in SetBitsThreads : SetBitsLoad(t)
    \/ \E t \in SetBitsThreads : SetBitsTrySetValue(t)

(***************************************************************************)
(* AtomicEnumSet<E> (atomic-utils.h:179-252)                               *)
(***************************************************************************)
\* E::kLastValue: the enum is 0..kLastValue, and the STATIC_ASSERT of line 241
\* requires kLastValue < the width of the storage word.
kLastValue == 1
Elements == 0..kLastValue

\* Mask(element): static_cast<base::AtomicWord>(1) << element
Mask(element) == {element}

\* ToIntegral(): base::Acquire_Load(&bits_)
ToIntegral == bits_

\* The calls of the model.  Add and Remove take an element, Intersect takes
\* another set, given by its word; Contains takes an element and returns.
SetCalls ==
    {[kind |-> k, arg |-> e] : k \in {"Add", "Remove", "Contains"}, e \in Elements}
        \cup {[kind |-> "Intersect", arg |-> w] : w \in SUBSET Elements}

\* The threads that use the one set, and how many calls each makes, in order.
SetThreads == {"a", "b"}
SetBudget == [a |-> 2, b |-> 1]

\* A Remove that forgets the complement: old & Mask(element).
SetNewWord_RemoveKeeps(old, call) == IF call.kind = "Add" THEN BitOr(old, Mask(call.arg)) ELSE IF call.kind = "Remove" THEN BitAnd(old, Mask(call.arg)) ELSE BitAnd(old, call.arg)

\* old OP NEW_VAL of ATOMIC_SET_WRITE, for Add (|, Mask(element)),
\* Remove (&, ~Mask(element)) and Intersect (&, set.ToIntegral()).
SetNewWord(old, call) == IF call.kind = "Add" THEN BitOr(old, Mask(call.arg)) ELSE IF call.kind = "Remove" THEN BitAnd(old, BitNot(Mask(call.arg))) ELSE BitAnd(old, call.arg)

\* Contains(element): (ToIntegral() & Mask(element)) != 0
Contains(element) == BitAnd(ToIntegral, Mask(element)) # {}

NoSetCall == [pc |-> "idle", call |-> [kind |-> "none", arg |-> 0], old |-> {}, n |-> 0, retried |-> FALSE]

\* A thread with calls left starts its next call.
SetCall(t, call) ==
    /\ es[t].pc = "idle"
    /\ es[t].n < SetBudget[t]
    /\ es' = [es EXCEPT ![t] = [pc |-> IF call.kind = "Contains" THEN "read" ELSE "load",
                                call |-> call, old |-> {}, n |-> es[t].n + 1, retried |-> FALSE]]
    /\ UNCHANGED <<bits_, lin, bits0>>
    /\ UNCHANGED <<tableVars, bitsVars, idVars, weakVars, visitVars, numberVars, atomic32Vars, enumVars, rangeVars, scanVars, pointersVars, bitVars, copyVars, loopVars>>

\* Contains: one acquire load; the call returns what it computed from it.
SetContains(t) ==
    /\ es[t].pc = "read"
    /\ lin' = Append(lin, [t |-> t, n |-> es[t].n, call |-> es[t].call, result |-> Contains(es[t].call.arg)])
    /\ es' = [es EXCEPT ![t].pc = "idle"]
    /\ UNCHANGED <<bits_, bits0>>
    /\ UNCHANGED <<tableVars, bitsVars, idVars, weakVars, visitVars, numberVars, atomic32Vars, enumVars, rangeVars, scanVars, pointersVars, bitVars, copyVars, loopVars>>

\* ATOMIC_SET_WRITE: old = base::Acquire_Load(&bits_)
SetLoad(t) ==
    /\ es[t].pc = "load"
    /\ es' = [es EXCEPT ![t].pc = "cas", ![t].old = ToIntegral]
    /\ UNCHANGED <<bits_, lin, bits0>>
    /\ UNCHANGED <<tableVars, bitsVars, idVars, weakVars, visitVars, numberVars, atomic32Vars, enumVars, rangeVars, scanVars, pointersVars, bitVars, copyVars, loopVars>>

\* ATOMIC_SET_WRITE: while (Release_CompareAndSwap(&bits_, old, old OP NEW_VAL) != old)
SetCompareAndSwap(t) ==
    LET r == CompareAndSwap(bits_, es[t].old, SetNewWord(es[t].old, es[t].call))
    IN  /\ es[t].pc = "cas"
        /\ bits_' = r.cell
        /\ IF r.prev = es[t].old
              THEN /\ es' = [es EXCEPT ![t].pc = "idle"]
                   /\ lin' = Append(lin, [t |-> t, n |-> es[t].n, call |-> es[t].call, result |-> FALSE])
              ELSE /\ es' = [es EXCEPT ![t].pc = "load", ![t].retried = TRUE]
                   /\ UNCHANGED lin
        /\ UNCHANGED bits0
        /\ UNCHANGED <<tableVars, bitsVars, idVars, weakVars, visitVars, numberVars, atomic32Vars, enumVars, rangeVars, scanVars, pointersVars, bitVars, copyVars, loopVars>>

\* AtomicEnumSet(bits): constructed from the word of any set over E.
SetInit ==
    /\ bits_ \in SUBSET Elements
    /\ bits0 = bits_
    /\ es = [t \in SetThreads |-> NoSetCall]
    /\ lin = <<>>

SetNext ==
    \/ \E t \in SetThreads, call \in SetCalls : SetCall(t, call)
    \/ \E t \in SetThreads : SetContains(t)
    \/ \E t \in SetThreads : SetLoad(t)
    \/ \E t \in SetThreads : SetCompareAndSwap(t)

(***************************************************************************)
(* Visitor-identity assignment.  objects-visiting.h declares GetVisitorId  *)
(* (lines 87-93) and documents the size-specialized ids (lines 65-73); the *)
(* body is modelled from the specification, section 4.2.                   *)
(***************************************************************************)
\* The smallest object, in words: the first specialized id is for 2 words.
kMinObjectSizeInWords == 2

\* Sizes the callers pass are 0..MaxSizeInWords.
MaxSizeInWords == 8

\* A layout of one plain-data family: the id of its 2-word visitor, the
\* largest specialized size N, and its generic id, which is not among the
\* specialized ones.
Layouts ==
    {l \in [base_id : {0, 5, 30}, N : {2, 3, 5, 6}, generic_id : {4, 34, 40}] :
        l.generic_id \notin l.base_id..(l.base_id + l.N - kMinObjectSizeInWords)}

\* The layout all of whose ids are enumerators of VisitorId.
LayoutInEnum(l) ==
    /\ l.base_id >= 0
    /\ l.base_id + l.N - kMinObjectSizeInWords < kVisitorIdCount
    /\ l.generic_id \in VisitorId

\* Type tags: categories with an id of their own, and the plain-data family.
CustomTags == {"Code", "Map", "WeakCell"}
TypeTags == CustomTags \cup {"PlainData"}

NoId == 0 - 1

\* A formula that counts the size from 1.
GetVisitorIdForSize_OffByOne(l, size_in_words, has_unboxed_fields) == IF has_unboxed_fields \/ size_in_words < kMinObjectSizeInWords \/ size_in_words > l.N THEN l.generic_id ELSE l.base_id + (size_in_words - 1)

\* A formula that takes the specialized id whatever the unboxed flag says,
\* and accepts one size more.
GetVisitorIdForSize_NoGeneric(l, size_in_words, has_unboxed_fields) == IF size_in_words < kMinObjectSizeInWords \/ size_in_words > l.N + 1 THEN l.generic_id ELSE l.base_id + (size_in_words - kMinObjectSizeInWords)

\* id = base_id + (size_in_words - 2) for size_in_words in [2, N]; anything
\* outside that range, or any shape with unboxed inline fields, maps to the
\* generic id.
GetVisitorIdForSize(l, size_in_words, has_unboxed_fields) == IF has_unboxed_fields \/ size_in_words < kMinObjectSizeInWords \/ size_in_words > l.N THEN l.generic_id ELSE l.base_id + (size_in_words - kMinObjectSizeInWords)

\* AssignId(type_tag, instance_size, has_unboxed_fields), for a family layout.
AssignId(in) ==
    IF in.type_tag \in CustomTags
        THEN kVisit(in.type_tag)
        ELSE GetVisitorIdForSize(in.layout, in.size_in_words, in.has_unboxed_fields)

\* The call: the result is computed from the arguments alone.
AssignIdCall ==
    /\ idOut = NoId
    /\ idOut' = AssignId(idIn)
    /\ UNCHANGED idIn
    /\ UNCHANGED <<tableVars, bitsVars, setVars, weakVars, visitVars, numberVars, atomic32Vars, enumVars, rangeVars, scanVars, pointersVars, bitVars, copyVars, loopVars>>

IdInit ==
    /\ idIn \in [type_tag : TypeTags, layout : Layouts, size_in_words : 0..MaxSizeInWords,
                  has_unboxed_fields : BOOLEAN]
    /\ idOut = NoId

IdNext == AssignIdCall

(***************************************************************************)
(* VisitWeakList.  objects-visiting.h declares it (lines 411-419); the     *)
(* body is modelled from the specification, section 4.7.                   *)
(***************************************************************************)
\* Lists have at most MaxNodes nodes.
MaxNodes == 3

\* heap->undefined_value(): the empty list and the end of a list.
Undefined == 0

\* What the retainer returns for a dead node, and the null tail.
Dead == 0 - 1

\* Node k of the input list is object k; the object it is relocated to, when
\* the retainer relocates it, is object n + k.
MovedTo(n, k) == n + k

\* The retainer policies for a list of n nodes: each node is dead, kept in
\* place, or kept as its relocated copy.
Retainers(n) == {r \in [1..n -> (0 - 1)..(2 * n)] : \A k \in 1..n : r[k] \in {Dead, k, MovedTo(n, k)}}

\* The next fields when the traversal starts: node k links to node k + 1, and
\* a relocated copy holds the link its original held when it was copied.
InitialNext(n) == [o \in 1..(2 * n) |-> IF o = n \/ o = 2 * n THEN Undefined ELSE IF o < n THEN o + 1 ELSE o - n + 1]

\* A traversal that leaves the last retained node's link as it found it.
TerminateList_Skipped(next, tail) == next

\* After the loop: the last retained node, if any, ends the list.
TerminateList(next, tail) == IF tail # Dead THEN [next EXCEPT ![tail] = Undefined] ELSE next

\* WeakNext(node): the node's next field.
WeakNext(node) == wl.next[node]

\* A traversal that consults the retainer before it reads the next field.
WeakStepOrder_RetainFirst == <<"retain", "read", "link">>

\* The order of the three steps the traversal takes for one node.
WeakStepOrder == <<"read", "retain", "link">>

\* The step after the given one; after the last, the loop test.
WeakStepAfter(step) ==
    LET i == CHOOSE k \in 1..Len(WeakStepOrder) : WeakStepOrder[k] = step
    IN  IF i = Len(WeakStepOrder) THEN "test" ELSE WeakStepOrder[i + 1]

\* The loop test: there is a node left to visit.
WeakLoop ==
    /\ wl.pc = "test"
    /\ wl.list # Undefined
    /\ wl' = [wl EXCEPT !.pc = WeakStepOrder[1]]
    /\ UNCHANGED <<tableVars, bitsVars, setVars, idVars, visitVars, numberVars, atomic32Vars, enumVars, rangeVars, scanVars, pointersVars, bitVars, copyVars, loopVars>>

\* The node's next reference is read.  (reads records the object read and
\* whether its link had been rewritten, or it had been replaced, by then.)
WeakRead ==
    /\ wl.pc = "read"
    /\ wl' = [wl EXCEPT
                !.following = WeakNext(wl.list),
                !.reads = Append(@, [obj |-> wl.list,
                                     rewritten |-> wl.list \in wl.rewritten,
                                     moved |-> wl.list \in wl.moved]),
                !.pc = WeakStepAfter("read")]
    /\ UNCHANGED <<tableVars, bitsVars, setVars, idVars, visitVars, numberVars, atomic32Vars, enumVars, rangeVars, scanVars, pointersVars, bitVars, copyVars, loopVars>>

\* The node is passed through the retainer, which answers with the node, its
\* relocated copy, or nothing.
WeakRetain ==
    LET retained == wl.retainer[wl.list]
    IN  /\ wl.pc = "retain"
        /\ wl' = [wl EXCEPT
                    !.retained = retained,
                    !.moved = IF retained \notin {Dead, wl.list} THEN @ \cup {wl.list} ELSE @,
                    !.pc = WeakStepAfter("retain")]
        /\ UNCHANGED <<tableVars, bitsVars, setVars, idVars, visitVars, numberVars, atomic32Vars, enumVars, rangeVars, scanVars, pointersVars, bitVars, copyVars, loopVars>>

\* The node's replacement, if it has one, is linked after the last retained
\* node (or becomes the head); the traversal moves to the reference read.
WeakLink ==
    LET retained == wl.retained
        relink == retained # Dead /\ wl.head # Undefined
    IN  /\ wl.pc = "link"
        /\ wl' = [wl EXCEPT
                    !.head = IF retained # Dead /\ wl.head = Undefined THEN retained ELSE @,
                    !.next = IF relink THEN [@ EXCEPT ![wl.tail] = retained] ELSE @,
                    !.rewritten = IF relink THEN @ \cup {wl.tail} ELSE @,
                    !.tail = IF retained # Dead THEN retained ELSE @,
                    !.list = wl.following,
                    !.pc = WeakStepAfter("link")]
        /\ UNCHANGED <<tableVars, bitsVars, setVars, idVars, visitVars, numberVars, atomic32Vars, enumVars, rangeVars, scanVars, pointersVars, bitVars, copyVars, loopVars>>

\* The list is exhausted: the result is terminated and the head returned.
WeakReturn ==
    /\ wl.pc = "test"
    /\ wl.list = Undefined
    /\ wl' = [wl EXCEPT !.pc = "done", !.next = TerminateList(@, wl.tail)]
    /\ UNCHANGED <<tableVars, bitsVars, setVars, idVars, visitVars, numberVars, atomic32Vars, enumVars, rangeVars, scanVars, pointersVars, bitVars, copyVars, loopVars>>

\* A list of n nodes, a retainer policy, and the locals at entry.
WeakInit ==
    \E n \in 0..MaxNodes :
        \E r \in Retainers(n) :
            wl = [n |-> n, retainer |-> r, next |-> InitialNext(n),
                  list |-> IF n = 0 THEN Undefined ELSE 1,
                  head |-> Undefined, tail |-> Dead, pc |-> "test",
                  following |-> Undefined, retained |-> Dead,
                  rewritten |-> {}, moved |-> {}, reads |-> <<>>]

WeakNext_ == WeakLoop \/ WeakRead \/ WeakRetain \/ WeakLink \/ WeakReturn

(***************************************************************************)
(* Body visitors.  FixedBodyVisitor, FlexibleBodyVisitor and               *)
(* JSApiObjectVisitor are objects-visiting.h lines 124-143 and 310-324.    *)
(* The body descriptors they call and the bodies of HeapVisitor's          *)
(* defaults are not in src/: they are modelled from the specification,     *)
(* sections 4.4 and 4.6.  Offsets and sizes count words from the object's  *)
(* address; word 0 holds the map.                                          *)
(***************************************************************************)
\* Objects have at most MaxObjectWords words.
MaxObjectWords == 4

\* A behaviour visits its object at most MaxVisits times.
MaxVisits == 2

\* Objects whose body descriptor is fixed: the slots kStartOffset up to
\* kEndOffset and the size kSize are constants of the descriptor.  The map
\* passed along is any map: instance_size need not be kSize.
FixedObjects ==
    {[kind |-> "fixed", kStartOffset |-> s, kEndOffset |-> e, kSize |-> z, instance_size |-> i] :
        s \in 1..MaxObjectWords, e \in 1..MaxObjectWords, z \in 1..MaxObjectWords,
        i \in {MaxObjectWords - 1, MaxObjectWords}}

\* Objects whose body descriptor is flexible: the slots run from
\* kStartOffset to the object's size, which its map holds.
FlexibleObjects ==
    {[kind |-> "flexible", kStartOffset |-> s, kEndOffset |-> 0, kSize |-> 0, instance_size |-> i] :
        s \in 1..MaxObjectWords, i \in 1..MaxObjectWords}

\* The objects visited: the slots of a fixed body lie inside the object.
Objects ==
    {o \in FixedObjects : o.kStartOffset <= o.kEndOffset /\ o.kEndOffset <= o.kSize}
    \cup {o \in FlexibleObjects : o.kStartOffset <= o.instance_size}

\* The visitors an object of each kind is visited by.
Visitors(o) ==
    IF o.kind = "fixed" THEN {"FixedBodyVisitor", "HeapVisitor"}
    ELSE {"FlexibleBodyVisitor", "JSApiObjectVisitor", "HeapVisitor"}

\* BodyDescriptor::SizeOf(map, object).
SizeOf(o) == IF o.kind = "fixed" THEN o.kSize ELSE o.instance_size

\* Where BodyDescriptor::IterateBody stops: a fixed body at kEndOffset, a
\* flexible one at the size it is handed.
IterateBodyEnd(o, object_size) == IF o.kind = "fixed" THEN o.kEndOffset ELSE object_size

\* An entry of the log of a visit.
Event(kind, slot) == [kind |-> kind, slot |-> slot]

\* The result of a visitor whose ReturnType is void.
Void == 0 - 1

\* A visitor that returns the size the map holds.
FixedBodyVisitorResult_FromMap(o) == o.instance_size

\* FixedBodyVisitor::Visit returns BodyDescriptor::kSize.
FixedBodyVisitorResult(o) == o.kSize

\* A visitor that hands IterateBody one word more than the size.
FlexibleIterateBodySize_OneMore(object_size) == object_size + 1

\* FlexibleBodyVisitor::Visit hands IterateBody the size it computed.
FlexibleIterateBodySize(object_size) == object_size

\* A visitor that returns the number of slots instead of the size.
FlexibleBodyVisitorResult_Slots(o, object_size) == object_size - o.kStartOffset

\* FlexibleBodyVisitor::Visit returns the size it computed.
FlexibleBodyVisitorResult(o, object_size) == object_size

\* A default that traverses the body whatever ShouldVisit answers.
HeapVisitorBailsOut_Never(should_visit) == FALSE

\* HeapVisitor's defaults bail out when ShouldVisit answers false.
HeapVisitorBailsOut(should_visit) == ~should_visit

\* No visit under way.
NoVisit == [visitor |-> "none", pc |-> "ready", object_size |-> 0, p |-> 0, end |-> 0, log |-> <<>>]

\* A visitor is called on the object.
VisitCall(visitor) ==
    /\ vis.cur.pc = "ready"
    /\ Len(vis.runs) < MaxVisits
    /\ visitor \in Visitors(vis.object)
    /\ vis' = [vis EXCEPT !.cur = [NoVisit EXCEPT
                 !.visitor = visitor,
                 !.pc = CASE visitor = "FixedBodyVisitor" -> "iterate"
                          [] visitor = "FlexibleBodyVisitor" -> "size"
                          [] visitor = "JSApiObjectVisitor" -> "trace"
                          [] visitor = "HeapVisitor" -> "should_visit"]]
    /\ UNCHANGED <<tableVars, bitsVars, setVars, idVars, weakVars, numberVars, atomic32Vars, enumVars, rangeVars, scanVars, pointersVars, bitVars, copyVars, loopVars>>

\* The end of a visit: its result and its log join the completed visits.
Completed(result) ==
    [vis EXCEPT !.runs = Append(@, [visitor |-> vis.cur.visitor, log |-> vis.cur.log, result |-> result]),
                !.cur = NoVisit]

\* HeapVisitor::Visit<Category>: the ShouldVisit guard.
ShouldVisitStep ==
    /\ vis.cur.pc = "should_visit"
    /\ vis' = IF HeapVisitorBailsOut(vis.should_visit)
                THEN Completed(0)
                ELSE [vis EXCEPT !.cur.pc = "size"]
    /\ UNCHANGED <<tableVars, bitsVars, setVars, idVars, weakVars, numberVars, atomic32Vars, enumVars, rangeVars, scanVars, pointersVars, bitVars, copyVars, loopVars>>

\* A visitor that notifies the tracer whether or not it is in use.
TracePossibleWrapperNotifies_Always(in_use) == TRUE

\* TracePossibleWrapper notifies the tracer when
\* local_embedder_heap_tracer()->InUse().
TracePossibleWrapperNotifies(in_use) == in_use

\* JSApiObjectVisitor::Visit begins with TracePossibleWrapper, which
\* notifies the embedder's tracer when it is in use; then
\* JSObjectVisitor::Visit, a FlexibleBodyVisitor, runs.
TracePossibleWrapper ==
    /\ vis.cur.pc = "trace"
    /\ vis' = [vis EXCEPT
                 !.cur.log = IF TracePossibleWrapperNotifies(vis.in_use)
                               THEN Append(@, Event("TracePossibleWrapper", 0)) ELSE @,
                 !.cur.pc = "size"]
    /\ UNCHANGED <<tableVars, bitsVars, setVars, idVars, weakVars, numberVars, atomic32Vars, enumVars, rangeVars, scanVars, pointersVars, bitVars, copyVars, loopVars>>

\* int object_size = BodyDescriptor::SizeOf(map, object).
SizeOfStep ==
    /\ vis.cur.pc = "size"
    /\ vis' = [vis EXCEPT
                 !.cur.object_size = SizeOf(vis.object),
                 !.cur.log = Append(@, Event("SizeOf", 0)),
                 !.cur.pc = IF vis.cur.visitor = "HeapVisitor" THEN "map_pointer" ELSE "iterate"]
    /\ UNCHANGED <<tableVars, bitsVars, setVars, idVars, weakVars, numberVars, atomic32Vars, enumVars, rangeVars, scanVars, pointersVars, bitVars, copyVars, loopVars>>

\* HeapVisitor::Visit<Category>: the VisitMapPointer hook.
VisitMapPointer ==
    /\ vis.cur.pc = "map_pointer"
    /\ vis' = [vis EXCEPT
                 !.cur.log = Append(@, Event("VisitMapPointer", 0)),
                 !.cur.pc = "iterate"]
    /\ UNCHANGED <<tableVars, bitsVars, setVars, idVars, weakVars, numberVars, atomic32Vars, enumVars, rangeVars, scanVars, pointersVars, bitVars, copyVars, loopVars>>

\* BodyDescriptor::IterateBody is entered: with the object alone by
\* FixedBodyVisitor, with the object and the size by the others.
IterateBody ==
    LET handed == IF vis.cur.visitor = "HeapVisitor" THEN vis.cur.object_size
                  ELSE FlexibleIterateBodySize(vis.cur.object_size)
    IN  /\ vis.cur.pc = "iterate"
        /\ vis' = [vis EXCEPT
                     !.cur.p = vis.object.kStartOffset,
                     !.cur.end = IterateBodyEnd(vis.object, handed),
                     !.cur.log = Append(@, Event("IterateBody", 0)),
                     !.cur.pc = "slots"]
        /\ UNCHANGED <<tableVars, bitsVars, setVars, idVars, weakVars, numberVars, atomic32Vars, enumVars, rangeVars, scanVars, pointersVars, bitVars, copyVars, loopVars>>

\* IterateBody hands the next slot to the visitor's per-slot callback.
IterateBodySlot ==
    /\ vis.cur.pc = "slots"
    /\ vis.cur.p < vis.cur.end
    /\ vis' = [vis EXCEPT
                 !.cur.log = Append(@, Event("VisitPointer", vis.cur.p)),
                 !.cur.p = @ + 1]
    /\ UNCHANGED <<tableVars, bitsVars, setVars, idVars, weakVars, numberVars, atomic32Vars, enumVars, rangeVars, scanVars, pointersVars, bitVars, copyVars, loopVars>>

\* IterateBody is through; the visitor returns.
VisitReturn ==
    LET v == vis.cur.visitor
        result == CASE v = "FixedBodyVisitor" -> FixedBodyVisitorResult(vis.object)
                    [] v = "FlexibleBodyVisitor" -> FlexibleBodyVisitorResult(vis.object, vis.cur.object_size)
                    [] v = "JSApiObjectVisitor" -> Void
                    [] v = "HeapVisitor" -> vis.cur.object_size
    IN  /\ vis.cur.pc = "slots"
        /\ vis.cur.p >= vis.cur.end
        /\ vis' = Completed(result)
        /\ UNCHANGED <<tableVars, bitsVars, setVars, idVars, weakVars, numberVars, atomic32Vars, enumVars, rangeVars, scanVars, pointersVars, bitVars, copyVars, loopVars>>

\* An object, whether the embedder's tracer is in use, and what ShouldVisit
\* answers for the object.
VisitInit ==
    \E o \in Objects, in_use \in BOOLEAN, should_visit \in BOOLEAN :
        vis = [object |-> o, in_use |-> in_use, should_visit |-> should_visit,
               cur |-> NoVisit, runs |-> <<>>]

VisitNext ==
    \/ \E visitor \in {"FixedBodyVisitor", "FlexibleBodyVisitor", "JSApiObjectVisitor", "HeapVisitor"} :
          VisitCall(visitor)
    \/ ShouldVisitStep
    \/ TracePossibleWrapper
    \/ SizeOfStep
    \/ VisitMapPointer
    \/ IterateBody
    \/ IterateBodySlot
    \/ VisitReturn

(***************************************************************************)
(* AtomicNumber<T>: atomic-utils.h lines 17-55                             *)
(***************************************************************************)
\* The cell holds NumberBits bits.
NumberBits == 3

\* The cell's values are 0 .. NumberModulus - 1; its arithmetic wraps.
NumberModulus == 2 ^ NumberBits

\* The threads that call Increment and Decrement, and how many calls each
\* makes.
NumberThreads == {"t1", "t2"}
NumberBudget == [t1 |-> 2, t2 |-> 2]

\* The amounts passed to Increment and Decrement.
NumberAmounts == {1, 2, NumberModulus - 1}

\* static_cast<AtomicWord>(x), and back to T: the value in the cell's width.
NumberCast(x) == ((x % NumberModulus) + NumberModulus) % NumberModulus

\* An increment that returns the value it found, not the value it left.
Barrier_AtomicIncrement_ReturnsOld(cell, increment) == [cell |-> NumberCast(cell + increment), result |-> cell]

\* base::Barrier_AtomicIncrement(ptr, increment): one atomic
\* read-modify-write, which returns the incremented value.
Barrier_AtomicIncrement(cell, increment) == [cell |-> NumberCast(cell + increment), result |-> NumberCast(cell + increment)]

\* The increment each operation passes: Increment the amount, Decrement its
\* negation.
NumberIncrementOf(op, amount) == IF op = "Increment" THEN NumberCast(amount) ELSE NumberCast(0 - NumberCast(amount))

\* AtomicNumber::Value().
NumberValue == num.value_

\* Increment(amount) or Decrement(amount) by thread t.  (log records the
\* calls in the order they took effect, with what each returned.)
NumberCall(t, op, amount) ==
    LET done == Barrier_AtomicIncrement(num.value_, NumberIncrementOf(op, amount))
    IN  /\ num.left[t] > 0
        /\ num' = [num EXCEPT
                     !.value_ = done.cell,
                     !.left[t] = @ - 1,
                     !.log = Append(@, [thread |-> t, op |-> op, amount |-> amount,
                                        result |-> NumberCast(done.result)])]
        /\ UNCHANGED <<tableVars, bitsVars, setVars, idVars, weakVars, visitVars, atomic32Vars, enumVars, rangeVars, scanVars, pointersVars, bitVars, copyVars, loopVars>>

\* A cell constructed with any value, and no call made yet.
NumberInit ==
    \E initial \in 0..(NumberModulus - 1) :
        num = [value_ |-> initial, initial |-> initial, left |-> NumberBudget, log |-> <<>>]

NumberNext == \E t \in NumberThreads, op \in {"Increment", "Decrement"}, amount \in NumberAmounts : NumberCall(t, op, amount)

(***************************************************************************)
(* AsAtomic32::SetBits: atomic-utils.h lines 292-306                       *)
(***************************************************************************)
\* The threads that call SetBits on the one cell, and how many calls each
\* makes; a thread's second call repeats the arguments of its first.
Atomic32Threads == {"t1", "t2"}
Atomic32Budget == [t1 |-> 2, t2 |-> 1]

\* The (bits, mask) arguments: any field for the thread that calls twice,
\* one bit for the other; all satisfy the DCHECK_EQ.
Atomic32Args(t) == {a \in SetBitsArgs : Atomic32Budget[t] > 1 \/ Cardinality(a[2]) = 1}

\* A thread's call: its position, arguments, locals and result, and
\* (history) how many calls it has made, how many swaps of the call have
\* succeeded and what the last of them found and put, whether another
\* thread has written since its previous call returned, and the cell when
\* that call returned.
NoCall32 ==
    [pc |-> "ready", bits |-> {}, mask |-> {}, old_value |-> {}, new_value |-> {},
     result |-> FALSE, calls |-> 0, writes |-> 0, found |-> {}, put |-> {},
     foreign |-> FALSE, quiet |-> FALSE, before |-> {}, same |-> FALSE]

\* A test that never finds the bits set as needed.
AlreadySet_Never(old_value, bits, mask) == FALSE

\* if ((old_value & mask) == bits) return false;
AlreadySet(old_value, bits, mask) == BitAnd(old_value, mask) = bits

\* The return of a call: what it returns, and (history) whether the cell is
\* as the thread's previous call left it and no other thread wrote since.
Return32(call, result, cell) ==
    [call EXCEPT !.pc = "ready", !.result = result, !.calls = @ + 1,
                 !.quiet = ~call.foreign, !.foreign = FALSE,
                 !.same = (cell = call.before), !.before = cell]

\* A thread enters SetBits(addr, bits, mask); DCHECK_EQ(bits & ~mask, 0)
\* holds.
Atomic32Call(t, bits, mask) ==
    /\ a32.th[t].pc = "ready"
    /\ a32.th[t].calls < Atomic32Budget[t]
    /\ BitAnd(bits, BitNot(mask)) = {}
    /\ a32.th[t].calls > 0 => bits = a32.th[t].bits /\ mask = a32.th[t].mask
    /\ a32' = [a32 EXCEPT !.th[t] = [@ EXCEPT !.pc = "load", !.bits = bits, !.mask = mask, !.writes = 0]]
    /\ UNCHANGED <<tableVars, bitsVars, setVars, idVars, weakVars, visitVars, numberVars, enumVars, rangeVars, scanVars, pointersVars, bitVars, copyVars, loopVars>>

\* The loop body: old_value = Relaxed_Load(addr); return false if the bits
\* are set as needed; new_value = (old_value & ~mask) | bits.
Atomic32Load(t) ==
    LET call == a32.th[t]
        loaded == [call EXCEPT !.old_value = a32.cell]
    IN  /\ call.pc = "load"
        /\ a32' = [a32 EXCEPT !.th[t] =
                     IF AlreadySet(a32.cell, call.bits, call.mask)
                       THEN Return32(loaded, FALSE, a32.cell)
                       ELSE [loaded EXCEPT !.pc = "cas",
                                           !.new_value = NewValue(a32.cell, call.bits, call.mask)]]
        /\ UNCHANGED <<tableVars, bitsVars, setVars, idVars, weakVars, visitVars, numberVars, enumVars, rangeVars, scanVars, pointersVars, bitVars, copyVars, loopVars>>

\* The loop condition: while (Release_CompareAndSwap(addr, old_value,
\* new_value) != old_value); then return true.
Atomic32CompareAndSwap(t) ==
    LET call == a32.th[t]
        swap == CompareAndSwap(a32.cell, call.old_value, call.new_value)
        wrote == swap.cell # a32.cell
    IN  /\ call.pc = "cas"
        /\ a32' = [a32 EXCEPT
                     !.cell = swap.cell,
                     !.th = [u \in Atomic32Threads |->
                               IF u # t THEN [@[u] EXCEPT !.foreign = @ \/ wrote]
                               ELSE IF swap.prev = call.old_value
                                 THEN Return32([call EXCEPT !.writes = @ + 1, !.found = a32.cell,
                                                            !.put = swap.cell], TRUE, swap.cell)
                                 ELSE [call EXCEPT !.pc = "load",
                                                   !.writes = IF wrote THEN @ + 1 ELSE @]]]
        /\ UNCHANGED <<tableVars, bitsVars, setVars, idVars, weakVars, visitVars, numberVars, enumVars, rangeVars, scanVars, pointersVars, bitVars, copyVars, loopVars>>

\* A cell with any value, and no call made yet.
Atomic32Init ==
    \E initial \in Word :
        a32 = [cell |-> initial, th |-> [t \in Atomic32Threads |-> NoCall32]]

Atomic32Next ==
    \/ \E t \in Atomic32Threads : \E a \in Atomic32Args(t) : Atomic32Call(t, a[1], a[2])
    \/ \E t \in Atomic32Threads : Atomic32Load(t)
    \/ \E t \in Atomic32Threads : Atomic32CompareAndSwap(t)

(***************************************************************************)
(* AtomicEnumSet<E> with one caller: atomic-utils.h lines 186-252.  Here   *)
(* the storage word is a number, and the operators are computed bit by     *)
(* bit as the word operators of the code.                                  *)
(***************************************************************************)
\* The storage word has one bit more than E has values.
EnumWordBits == kLastValue + 2

\* The words, as numbers.
EnumWords == 0..(2 ^ EnumWordBits - 1)

\* Bit i of a word.
WordBit(w, i) == (w \div (2 ^ i)) % 2

\* The word whose bit i is bit[i], for i below n.
RECURSIVE WordFromBits(_, _)
WordFromBits(bit, n) == IF n = 0 THEN 0 ELSE WordFromBits(bit, n - 1) + bit[n - 1] * (2 ^ (n - 1))

\* a & b, a | b and ~a on base::AtomicWord.
WordAnd(a, b) == WordFromBits([i \in 0..(EnumWordBits - 1) |-> WordBit(a, i) * WordBit(b, i)], EnumWordBits)
WordOr(a, b) == WordFromBits([i \in 0..(EnumWordBits - 1) |-> IF WordBit(a, i) + WordBit(b, i) > 0 THEN 1 ELSE 0], EnumWordBits)
WordNot(a) == WordFromBits([i \in 0..(EnumWordBits - 1) |-> 1 - WordBit(a, i)], EnumWordBits)

\* A mask that is shifted one place too far.
EnumMask_OneTooFar(element) == 2 ^ (element + 1)

\* Mask(element): static_cast<base::AtomicWord>(1) << element
EnumMask(element) == 2 ^ element

\* The words of the sets over E: the arguments of the calls that take a set,
\* and what a set is constructed with.
EnumSets == 0..(2 ^ (kLastValue + 1) - 1)

\* The calls: those that take an element, those that take a set, and those
\* that take nothing.
EnumCalls ==
    {[kind |-> k, arg |-> e] : k \in {"Add", "Remove", "Contains"}, e \in Elements}
    \cup {[kind |-> k, arg |-> w] :
            k \in {"AddSet", "RemoveSet", "Intersect", "ContainsAnyOf", "Equals", "NotEquals", "Union"},
            w \in EnumSets}
    \cup {[kind |-> k, arg |-> 0] : k \in {"RemoveAll", "IsEmpty"}}

\* old OP NEW_VAL of ATOMIC_SET_WRITE for Add(element), Add(set),
\* Remove(element), Remove(set) and Intersect(set).
EnumNewWord(old, call) ==
    CASE call.kind = "Add" -> WordOr(old, EnumMask(call.arg))
      [] call.kind = "AddSet" -> WordOr(old, call.arg)
      [] call.kind = "Remove" -> WordAnd(old, WordNot(EnumMask(call.arg)))
      [] call.kind = "RemoveSet" -> WordAnd(old, WordNot(call.arg))
      [] call.kind = "Intersect" -> WordAnd(old, call.arg)

\* What IsEmpty, Contains, ContainsAnyOf, operator== and operator!= return
\* for the word ToIntegral() loads.
EnumAnswer(word, call) ==
    CASE call.kind = "IsEmpty" -> word = 0
      [] call.kind = "Contains" -> WordAnd(word, EnumMask(call.arg)) # 0
      [] call.kind = "ContainsAnyOf" -> WordAnd(word, call.arg) # 0
      [] call.kind = "Equals" -> word = call.arg
      [] call.kind = "NotEquals" -> word # call.arg

\* The state after a call: the word, the word before, the call and what it
\* returned (a truth value, or for operator| the word of the new set).
AfterCall(word, call, answer, union) ==
    [bits_ |-> word, before |-> sq.bits_, call |-> call, answer |-> answer, union |-> union]

\* Add, Remove and Intersect: ATOMIC_SET_WRITE.  With one caller the word
\* loaded is the word the swap finds, and the loop runs once.
EnumWrite(call) ==
    LET old == sq.bits_
        swap == CompareAndSwap(sq.bits_, old, EnumNewWord(old, call))
    IN  /\ call.kind \in {"Add", "AddSet", "Remove", "RemoveSet", "Intersect"}
        /\ swap.prev = old
        /\ sq' = AfterCall(swap.cell, call, FALSE, 0)
        /\ UNCHANGED <<tableVars, bitsVars, setVars, idVars, weakVars, visitVars, numberVars, atomic32Vars, rangeVars, scanVars, pointersVars, bitVars, copyVars, loopVars>>

\* RemoveAll(): base::Release_Store(&bits_, 0)
EnumRemoveAll(call) ==
    /\ call.kind = "RemoveAll"
    /\ sq' = AfterCall(0, call, FALSE, 0)
    /\ UNCHANGED <<tableVars, bitsVars, setVars, idVars, weakVars, visitVars, numberVars, atomic32Vars, rangeVars, scanVars, pointersVars, bitVars, copyVars, loopVars>>

\* IsEmpty, Contains, ContainsAnyOf, operator== and operator!=.
EnumQuery(call) ==
    /\ call.kind \in {"IsEmpty", "Contains", "ContainsAnyOf", "Equals", "NotEquals"}
    /\ sq' = AfterCall(sq.bits_, call, EnumAnswer(sq.bits_, call), 0)
    /\ UNCHANGED <<tableVars, bitsVars, setVars, idVars, weakVars, visitVars, numberVars, atomic32Vars, rangeVars, scanVars, pointersVars, bitVars, copyVars, loopVars>>

\* operator|: a new set of ToIntegral() | set.ToIntegral().
EnumUnion(call) ==
    /\ call.kind = "Union"
    /\ sq' = AfterCall(sq.bits_, call, FALSE, WordOr(sq.bits_, call.arg))
    /\ UNCHANGED <<tableVars, bitsVars, setVars, idVars, weakVars, visitVars, numberVars, atomic32Vars, rangeVars, scanVars, pointersVars, bitVars, copyVars, loopVars>>

\* AtomicEnumSet(bits): constructed from the word of any set over E.
EnumInit ==
    \E w \in EnumSets :
        sq = [bits_ |-> w, before |-> w, call |-> [kind |-> "none", arg |-> 0], answer |-> FALSE, union |-> 0]

EnumNext ==
    \E call \in EnumCalls :
        \/ EnumWrite(call)
        \/ EnumRemoveAll(call)
        \/ EnumQuery(call)
        \/ EnumUnion(call)

(***************************************************************************)
(* VisitorDispatchTable called with ids in and out of range:               *)
(* objects-visiting.h lines 111-121.  An access to callbacks_[id] with id  *)
(* not below kVisitorIdCount is undefined; the builds either reach the     *)
(* word behind the array or fault.                                         *)
(***************************************************************************)
\* An id that is not a VisitorId: the first one past the table.
OutOfRangeIds == {kVisitorIdCount}

\* What an access behind the array does.
OutOfRangeOutcomes == {"reaches", "faults"}

\* No call made yet.
NoRangeCall == [op |-> "none", id |-> 0, returned |-> FALSE, val |-> kZeroWord]

\* Register(id, callback): DCHECK(id < kVisitorIdCount), which a build
\* without DCHECKs does not evaluate; then callbacks_[id] = callback.
RangeRegister(id, callback, outcome) ==
    /\ rg.status = "running"
    /\ rg' =
         IF id \in VisitorId
           THEN [rg EXCEPT !.callbacks_ = StoreElement(@, id, callback),
                           !.last = [op |-> "Register", id |-> id, returned |-> TRUE, val |-> callback]]
         ELSE IF rg.dchecks
           THEN [rg EXCEPT !.status = "fatal",
                           !.last = [op |-> "Register", id |-> id, returned |-> FALSE, val |-> callback]]
         ELSE IF outcome = "reaches"
           THEN [rg EXCEPT !.behind = callback, !.stored_outside = TRUE,
                           !.last = [op |-> "Register", id |-> id, returned |-> TRUE, val |-> callback]]
         ELSE [rg EXCEPT !.status = "fault",
                         !.last = [op |-> "Register", id |-> id, returned |-> FALSE, val |-> callback]]
    /\ UNCHANGED <<tableVars, bitsVars, setVars, idVars, weakVars, visitVars, numberVars, atomic32Vars, enumVars, scanVars, pointersVars, bitVars, copyVars, loopVars>>

\* GetVisitorById(id): return reinterpret_cast<Callback>(callbacks_[id]),
\* with no check of id in any build.
RangeGetVisitorById(id, outcome) ==
    /\ rg.status = "running"
    /\ rg' =
         IF id \in VisitorId
           THEN [rg EXCEPT !.last = [op |-> "GetVisitorById", id |-> id, returned |-> TRUE,
                                     val |-> rg.callbacks_[id]]]
         ELSE IF outcome = "reaches"
           THEN [rg EXCEPT !.loaded_outside = TRUE,
                           !.last = [op |-> "GetVisitorById", id |-> id, returned |-> TRUE,
                                     val |-> rg.behind]]
         ELSE [rg EXCEPT !.status = "fault",
                         !.last = [op |-> "GetVisitorById", id |-> id, returned |-> FALSE,
                                   val |-> kZeroWord]]
    /\ UNCHANGED <<tableVars, bitsVars, setVars, idVars, weakVars, visitVars, numberVars, atomic32Vars, enumVars, scanVars, pointersVars, bitVars, copyVars, loopVars>>

\* A zeroed table, any word behind it, in a build with or without DCHECKs.
RangeInit ==
    \E dchecks \in BOOLEAN, behind \in Callbacks \cup {kZeroWord} :
        rg = [callbacks_ |-> [id \in VisitorId |-> kZeroWord], behind |-> behind,
              dchecks |-> dchecks, status |-> "running", last |-> NoRangeCall,
              stored_outside |-> FALSE, loaded_outside |-> FALSE]

RangeNext ==
    \E id \in SampleIds \cup OutOfRangeIds, outcome \in OutOfRangeOutcomes :
        \/ \E callback \in Callbacks : RangeRegister(id, callback, outcome)
        \/ RangeGetVisitorById(id, outcome)

(***************************************************************************)
(* A linear scan of a region with StaticNewSpaceVisitor::IterateBody:      *)
(* objects-visiting.h lines 146-236.  The callbacks are in src/; which     *)
(* callback Initialize registers for which category, GetVisitor(map) and   *)
(* the scanning caller are not, and are modelled from the specification,   *)
(* sections 4.3 and 4.5.  Sizes and addresses share one unit.              *)
(***************************************************************************)
\* A region holds at most MaxRegionObjects objects.
MaxRegionObjects == 3

\* The categories whose size the object itself holds (a length or a size
\* field), the data objects, and the objects with reference slots.
SizedByObject == {"ByteArray", "FixedDoubleArray", "FreeSpace"}
DataObjects == {"DataObject", "DataObjectSpecialized"}
WithSlots == {"JSObject"}
ScanCategories == SizedByObject \cup DataObjects \cup WithSlots

\* The sizes of the objects of a region.
ScanSizes == {2, 3}

\* An object of a category and a size, with its map: the map holds the size
\* unless the object does; a specialized visitor is registered for the
\* size of the objects it visits.
ScanObject(category, size) ==
    [category |-> category, size |-> size,
     own_size |-> IF category \in SizedByObject THEN size ELSE 0,
     instance_size |-> IF category \in SizedByObject THEN 0 ELSE size,
     object_size |-> IF category = "DataObjectSpecialized" THEN size ELSE 0]

ScanObjects == {ScanObject(c, z) : c \in ScanCategories, z \in ScanSizes}

\* The regions scanned.
Regions == UNION {[1..n -> ScanObjects] : n \in 0..MaxRegionObjects}

\* The address of object k of a region, and of the region's end; the region
\* starts at address 0.
RECURSIVE StartOf(_, _)
StartOf(region, k) == IF k = 1 THEN 0 ELSE StartOf(region, k - 1) + region[k - 1].size
RegionEnd(region) == StartOf(region, Len(region) + 1)

\* The object at an address, or 0 when no object starts there.
ObjectAt(region, address) ==
    IF \E k \in 1..Len(region) : StartOf(region, k) = address
      THEN CHOOSE k \in 1..Len(region) : StartOf(region, k) = address
      ELSE 0

\* VisitByteArray, VisitFixedDoubleArray, VisitFreeSpace: the size the
\* object holds (ByteArraySize(), SizeFor(length), size()).
VisitSizedByObject(o) == o.own_size

\* DataObjectVisitor::VisitSpecialized<object_size>.
VisitSpecialized(o) == o.object_size

\* A visitor of data objects that leaves the header word out of the size.
DataObjectVisitorVisit_WithoutHeader(o) == o.instance_size - 1

\* DataObjectVisitor::Visit: map->instance_size().
DataObjectVisitorVisit(o) == o.instance_size

\* JSObjectVisitor: a FlexibleBodyVisitor with ReturnType int; the slots
\* follow the map word.
JSObjectVisitorVisit(o) ==
    LET described == [kind |-> "flexible", kStartOffset |-> 1, kEndOffset |-> 0,
                      kSize |-> 0, instance_size |-> o.instance_size]
        object_size == SizeOf(described)
    IN  [result |-> FlexibleBodyVisitorResult(described, object_size),
         slots |-> IterateBodyEnd(described, FlexibleIterateBodySize(object_size)) - described.kStartOffset]

\* IterateBody(map, obj): table_.GetVisitor(map)(map, obj); what the
\* callback of the object's category returns, and how many slots it hands
\* to VisitPointer.
NewSpaceIterateBody(o) ==
    CASE o.category \in SizedByObject -> [result |-> VisitSizedByObject(o), slots |-> 0]
      [] o.category = "DataObjectSpecialized" -> [result |-> VisitSpecialized(o), slots |-> 0]
      [] o.category = "DataObject" -> [result |-> DataObjectVisitorVisit(o), slots |-> 0]
      [] o.category \in WithSlots -> JSObjectVisitorVisit(o)

\* The scan visits the object at the cursor and advances the cursor by the
\* size IterateBody returns.  A cursor inside an object has lost the
\* objects' bounds: the scan reads no map there.
ScanVisit ==
    LET k == ObjectAt(sc.region, sc.cursor)
        visit == NewSpaceIterateBody(sc.region[k])
    IN  /\ sc.pc = "scan"
        /\ sc.cursor < RegionEnd(sc.region)
        /\ sc' = IF k = 0
                   THEN [sc EXCEPT !.pc = "lost"]
                   ELSE [sc EXCEPT
                           !.cursor = @ + visit.result,
                           !.visits = Append(@, [object |-> k, address |-> sc.cursor,
                                                 result |-> visit.result, slots |-> visit.slots])]
        /\ UNCHANGED <<settledVars, pointersVars, bitVars, copyVars, loopVars>>

\* The cursor has reached the region's end, or passed it.
ScanReturn ==
    /\ sc.pc = "scan"
    /\ sc.cursor >= RegionEnd(sc.region)
    /\ sc' = [sc EXCEPT !.pc = "done"]
    /\ UNCHANGED <<settledVars, pointersVars, bitVars, copyVars, loopVars>>

\* A region, and the cursor at its start.
ScanInit ==
    \E region \in Regions :
        sc = [region |-> region, cursor |-> 0, visits |-> <<>>, pc |-> "scan"]

ScanNext == ScanVisit \/ ScanReturn

(***************************************************************************)
(* CopyFrom beside a reader that resolves two ids, one after the other:    *)
(* objects-visiting.h lines 100-113.  No Register runs meanwhile.          *)
(***************************************************************************)
\* The tables at the entry of dst.CopyFrom(src): the sampled slots of dst
\* are unset or unreachable, those of src hold a callback.
CopyTables ==
    {[dst |-> [id \in VisitorId |-> IF id \in SampleIds THEN d[id] ELSE kZeroWord],
      src |-> [id \in VisitorId |-> IF id \in SampleIds THEN o[id] ELSE UnreachableVisitor]] :
        d \in [SampleIds -> {kZeroWord, UnreachableVisitor}],
        o \in [SampleIds -> Callbacks]}

\* A copy that starts at the last slot and runs down.
CopyFromSlot_Downwards(i) == kVisitorIdCount - 1 - i

\* The slot iteration i stores to and loads from: callbacks_[i].
CopyFromSlot(i) == i

\* One iteration: base::Relaxed_Store(&callbacks_[i], other->callbacks_[i]); i++
CopyStep ==
    /\ cp.pc = "loop"
    /\ CopyFromLoopCond(cp.i)
    /\ cp' = [cp EXCEPT
                !.dst[CopyFromSlot(cp.i)] = Relaxed_Store(@, CopyFromSource(cp.src, CopyFromSlot(cp.i))),
                !.i = @ + 1]
    /\ UNCHANGED <<settledVars, scanVars, pointersVars, bitVars, loopVars>>

\* The loop condition fails: CopyFrom returns.
CopyReturn ==
    /\ cp.pc = "loop"
    /\ ~CopyFromLoopCond(cp.i)
    /\ cp' = [cp EXCEPT !.pc = "done"]
    /\ UNCHANGED <<settledVars, scanVars, pointersVars, bitVars, loopVars>>

\* The reader resolves an id on dst while the copy is in its loop:
\* GetVisitorById(id), one load.  (reads records the reader's results in
\* the order it got them.)
CopyRead(id) ==
    /\ cp.pc = "loop"
    /\ Len(cp.reads) < 2
    /\ cp' = [cp EXCEPT !.reads = Append(@, [id |-> id, val |-> cp.dst[id]])]
    /\ UNCHANGED <<settledVars, scanVars, pointersVars, bitVars, loopVars>>

\* CopyFrom is entered: int i = 0.
CopyInit ==
    \E t \in CopyTables :
        cp = [dst |-> t.dst, src |-> t.src, pre |-> t.dst, i |-> 0, pc |-> "loop", reads |-> <<>>]

CopyNext ==
    \/ CopyStep
    \/ CopyReturn
    \/ \E id \in SampleIds : CopyRead(id)

(***************************************************************************)
(* StaticNewSpaceVisitor::VisitPointers: objects-visiting.h lines 171-176  *)
(***************************************************************************)
\* Slot addresses are 0 .. MaxAddress, in words.
MaxAddress == 6

\* A loop that also visits the slot at end.
VisitPointersLoopCond_Inclusive(p, end) == p <= end

\* The loop condition: p < end.
VisitPointersLoopCond(p, end) == p < end

\* One iteration: StaticVisitor::VisitPointer(heap, object, p); p++
VisitPointersStep ==
    /\ vp.pc = "loop"
    /\ VisitPointersLoopCond(vp.p, vp.end)
    /\ vp' = [vp EXCEPT !.calls = Append(@, vp.p), !.p = @ + 1]
    /\ UNCHANGED <<settledVars, scanVars, bitVars, copyVars, loopVars>>

\* The loop condition fails: VisitPointers returns.
VisitPointersReturn ==
    /\ vp.pc = "loop"
    /\ ~VisitPointersLoopCond(vp.p, vp.end)
    /\ vp' = [vp EXCEPT !.pc = "done"]
    /\ UNCHANGED <<settledVars, scanVars, bitVars, copyVars, loopVars>>

\* VisitPointers(heap, object, start, end) is entered with any two
\* addresses: Object** p = start.
VisitPointersInit ==
    \E start \in 0..MaxAddress, end \in 0..MaxAddress :
        vp = [start |-> start, end |-> end, p |-> start, pc |-> "loop", calls |-> <<>>]

VisitPointersNext == VisitPointersStep \/ VisitPointersReturn

(***************************************************************************)
(* AtomicValue<T>::SetBit and ClearBit for a word-sized T, one caller:     *)
(* atomic-utils.h lines 132-146.  Words are sets of bit positions.         *)
(***************************************************************************)
\* The width of int, the type of the literal 1 in ClearBit's 1 << bit.
IntWidth == 32

\* The width of T when T is as wide as base::AtomicWord.
WordWidth == 64

\* A caller makes at most MaxBitCalls calls.
MaxBitCalls == 2

\* The bit positions of T, and the bits the caller names.
WideBits == 0..(WordWidth - 1)
BitArgs == {0, IntWidth - 2, IntWidth - 1, IntWidth, WordWidth - 1}

\* The cells the calls start from: no bit set, every bit set, and one bit
\* at each end and on each side of int's width.
InitialCells == {{}, WideBits, {0, IntWidth - 1, IntWidth, WordWidth - 1}}

\* A shift of the int 1 by the width of int or more is undefined: the
\* builds shift by the count modulo the width, or produce 0.
ShiftOutcomes == {"count_wraps", "zero"}

\* static_cast<T>(1) << bit: computed in T.
ShiftInT(bit) == {bit}

\* 1 << bit: computed in int; the bits of the int it yields.
ShiftInInt(bit, outcome) ==
    IF bit < IntWidth THEN {bit}
    ELSE IF outcome = "count_wraps" THEN {bit % IntWidth}
    ELSE {}

\* The conversion of an int to T, which extends its sign bit.
IntToT(int_bits) ==
    IF (IntWidth - 1) \in int_bits THEN int_bits \cup (IntWidth..(WordWidth - 1)) ELSE int_bits

\* SetBits(bits, mask) with one caller: the loop runs once, and the swap
\* puts (old_value & ~mask) | bits.
SetBitsOnce(cell, bits, mask) ==
    LET old_value == cell
        new_value == (old_value \cap (WideBits \ mask)) \cup bits
    IN  CompareAndSwap(cell, old_value, new_value).cell

\* SetBit(bit): SetBits(static_cast<T>(1) << bit, static_cast<T>(1) << bit)
SetBit(bit) ==
    /\ Len(bt.calls) < MaxBitCalls
    /\ bt' = [bt EXCEPT
                !.value_ = SetBitsOnce(@, ShiftInT(bit), ShiftInT(bit)),
                !.calls = Append(@, [op |-> "SetBit", bit |-> bit, before |-> bt.value_])]
    /\ UNCHANGED <<settledVars, scanVars, pointersVars, copyVars, loopVars>>

\* ClearBit(bit): SetBits(0, 1 << bit)
ClearBit(bit, outcome) ==
    /\ Len(bt.calls) < MaxBitCalls
    /\ bt' = [bt EXCEPT
                !.value_ = SetBitsOnce(@, {}, IntToT(ShiftInInt(bit, outcome))),
                !.calls = Append(@, [op |-> "ClearBit", bit |-> bit, before |-> bt.value_])]
    /\ UNCHANGED <<settledVars, scanVars, pointersVars, copyVars, loopVars>>

\* AtomicValue(T initial).
BitInit ==
    \E initial \in InitialCells :
        bt = [value_ |-> initial, calls |-> <<>>]

BitNext ==
    \E bit \in BitArgs :
        \/ SetBit(bit)
        \/ \E outcome \in ShiftOutcomes : ClearBit(bit, outcome)

(***************************************************************************)
(* The retry loops beside threads that never stop calling:                 *)
(* AtomicValue::SetBits (atomic-utils.h lines 132-140) and                 *)
(* ATOMIC_SET_WRITE (lines 214-221) with Add, Remove and Intersect.        *)
(***************************************************************************)
\* The threads that write the one cell; each may call again and again.
LoopThreads == {"t1", "t2"}

\* The class of the cell, and the calls made on a cell of each class.
LoopCall(kind, arg, bits, mask) == [kind |-> kind, arg |-> arg, bits |-> bits, mask |-> mask]
LoopCalls ==
    [AtomicValue |-> {LoopCall("SetBits", {}, {0}, {0}), LoopCall("SetBits", {}, {}, {0}),
                      LoopCall("SetBits", {}, {1}, {0, 1})},
     AtomicEnumSet |-> {LoopCall("Add", 0, {}, {}), LoopCall("Remove", 0, {}, {}),
                        LoopCall("Intersect", {1}, {}, {})}]

\* The values the cell starts from.
LoopCells == {{}, {0}, {0, 1}}

\* A thread's position, call and local, and (history) whether another
\* thread's swap has written the cell since the thread's last load and since
\* its call began, whether a swap of the call has failed, and whether one
\* has failed with no write of another thread since the load before it.
NoLoopCall ==
    [pc |-> "ready", call |-> LoopCall("none", 0, {}, {}), old_value |-> {},
     since_load |-> FALSE, since_call |-> FALSE, retried |-> FALSE, failed_alone |-> FALSE]

\* A loop that loads once, before its first iteration only.
LoopLoaded_Hoisted(call, cell) == IF call.retried THEN call.old_value ELSE cell

\* old_value = Value(); old = base::Acquire_Load(&bits_): in the loop body.
LoopLoaded(call, cell) == cell

\* new_value = (old_value & ~mask) | bits; old OP NEW_VAL
LoopNewValue(old_value, call) ==
    IF call.kind = "SetBits" THEN NewValue(old_value, call.bits, call.mask)
    ELSE SetNewWord(old_value, call)

\* A thread enters SetBits, Add, Remove or Intersect.
LoopEnter(t, call) ==
    /\ lp.th[t].pc \in {"ready", "returned"}
    /\ call \in LoopCalls[lp.class]
    /\ call.kind = "SetBits" => BitAnd(call.bits, BitNot(call.mask)) = {}
    /\ lp' = [lp EXCEPT !.th[t] = [NoLoopCall EXCEPT !.pc = "load", !.call = call]]
    /\ UNCHANGED <<settledVars, scanVars, pointersVars, bitVars, copyVars>>

\* The loop body.
LoopLoad(t) ==
    /\ lp.th[t].pc = "load"
    /\ lp' = [lp EXCEPT !.th[t] = [@ EXCEPT !.pc = "cas",
                                            !.old_value = LoopLoaded(lp.th[t], lp.cell),
                                            !.since_load = FALSE]]
    /\ UNCHANGED <<settledVars, scanVars, pointersVars, bitVars, copyVars>>

\* The loop condition: the swap and its test, one atomic step.  A swap that
\* succeeds is a write of the cell.
LoopCompareAndSwap(t) ==
    LET call == lp.th[t]
        swap == CompareAndSwap(lp.cell, call.old_value, LoopNewValue(call.old_value, call.call))
        success == swap.prev = call.old_value
    IN  /\ call.pc = "cas"
        /\ lp' = [lp EXCEPT
                    !.cell = swap.cell,
                    !.th = [u \in LoopThreads |->
                              IF u # t
                                THEN [@[u] EXCEPT !.since_load = @ \/ success,
                                                  !.since_call = @ \/ success]
                              ELSE IF success THEN [call EXCEPT !.pc = "returned"]
                              ELSE [call EXCEPT !.pc = "load", !.retried = TRUE,
                                                !.failed_alone = @ \/ ~call.since_load]]]
        /\ UNCHANGED <<settledVars, scanVars, pointersVars, bitVars, copyVars>>

\* A cell of either class with any of the initial values, and no call made.
LoopInit ==
    \E class \in DOMAIN LoopCalls, initial \in LoopCells :
        lp = [class |-> class, cell |-> initial, th |-> [t \in LoopThreads |-> NoLoopCall]]

LoopNext ==
    \/ \E t \in LoopThreads, call \in UNION {LoopCalls[c] : c \in DOMAIN LoopCalls} : LoopEnter(t, call)
    \/ \E t \in LoopThreads : LoopLoad(t)
    \/ \E t \in LoopThreads : LoopCompareAndSwap(t)

\* A thread inside a call keeps running: its next step is taken.
LoopFairness ==
    \A t \in LoopThreads : WF_vars(LoopLoad(t)) /\ WF_vars(LoopCompareAndSwap(t))

TableInit ==
    /\ callbacks_ = [t \in Tables |-> [id \in VisitorId |-> kZeroWord]]
    /\ copy_pc = Idle
    /\ copy_i = 0
    /\ pre = [t \in Tables |-> [id \in VisitorId |-> kZeroWord]]
    /\ registered = [t \in Tables |-> [id \in VisitorId |-> NotRegistered]]
    /\ got = NoRead

TableIdle ==
    /\ callbacks_ = Idle /\ copy_pc = Idle /\ copy_i = Idle /\ pre = Idle
    /\ registered = Idle /\ got = Idle

BitsIdle == value_ = Idle /\ sb = Idle /\ value0 = Idle
SetIdle == bits_ = Idle /\ es = Idle /\ lin = Idle /\ bits0 = Idle
IdIdle == idIn = Idle /\ idOut = Idle
WeakIdle == wl = Idle
VisitIdle == vis = Idle
NumberIdle == num = Idle
Atomic32Idle == a32 = Idle
EnumIdle == sq = Idle
RangeIdle == rg = Idle
ScanIdle == sc = Idle
PointersIdle == vp = Idle
BitIdle == bt = Idle
CopyIdle == cp = Idle
LoopIdle == lp = Idle
LastIdle == ScanIdle /\ PointersIdle /\ BitIdle /\ CopyIdle /\ LoopIdle
LaterIdle == VisitIdle /\ NumberIdle /\ Atomic32Idle /\ EnumIdle /\ RangeIdle /\ LastIdle

Init == TableInit /\ BitsIdle /\ SetIdle /\ IdIdle /\ WeakIdle /\ LaterIdle

Next ==
    \/ \E t \in Tables, id \in SampleIds, cb \in Callbacks : Register(t, id, cb)
    \/ CopyFromCall
    \/ CopyFromStep
    \/ CopyFromReturn
    \/ \E id \in SampleIds : ReadVisitor(id)

Spec == Init /\ [][Next]_vars

InitBits == TableIdle /\ BitsInit /\ SetIdle /\ IdIdle /\ WeakIdle /\ LaterIdle

SpecBits == InitBits /\ [][BitsNext]_vars

InitSet == TableIdle /\ BitsIdle /\ SetInit /\ IdIdle /\ WeakIdle /\ LaterIdle

SpecSet == InitSet /\ [][SetNext]_vars

InitId == TableIdle /\ BitsIdle /\ SetIdle /\ IdInit /\ WeakIdle /\ LaterIdle

SpecId == InitId /\ [][IdNext]_vars

InitWeak == TableIdle /\ BitsIdle /\ SetIdle /\ IdIdle /\ WeakInit /\ LaterIdle

SpecWeak == InitWeak /\ [][WeakNext_]_vars

EarlierIdle == TableIdle /\ BitsIdle /\ SetIdle /\ IdIdle /\ WeakIdle

InitVisit == EarlierIdle /\ VisitInit /\ NumberIdle /\ Atomic32Idle /\ EnumIdle /\ RangeIdle /\ LastIdle

SpecVisit == InitVisit /\ [][VisitNext]_vars

InitNumber == EarlierIdle /\ VisitIdle /\ NumberInit /\ Atomic32Idle /\ EnumIdle /\ RangeIdle /\ LastIdle

SpecNumber == InitNumber /\ [][NumberNext]_vars

InitAtomic32 == EarlierIdle /\ VisitIdle /\ NumberIdle /\ Atomic32Init /\ EnumIdle /\ RangeIdle /\ LastIdle

SpecAtomic32 == InitAtomic32 /\ [][Atomic32Next]_vars

InitEnum == EarlierIdle /\ VisitIdle /\ NumberIdle /\ Atomic32Idle /\ EnumInit /\ RangeIdle /\ LastIdle

SpecEnum == InitEnum /\ [][EnumNext]_vars

InitRange == EarlierIdle /\ VisitIdle /\ NumberIdle /\ Atomic32Idle /\ EnumIdle /\ RangeInit /\ LastIdle

SpecRange == InitRange /\ [][RangeNext]_vars

SettledIdle == EarlierIdle /\ VisitIdle /\ NumberIdle /\ Atomic32Idle /\ EnumIdle /\ RangeIdle

InitScan == SettledIdle /\ ScanInit /\ PointersIdle /\ BitIdle /\ CopyIdle /\ LoopIdle

SpecScan == InitScan /\ [][ScanNext]_vars

InitCopy == SettledIdle /\ ScanIdle /\ PointersIdle /\ BitIdle /\ CopyInit /\ LoopIdle

SpecCopy == InitCopy /\ [][CopyNext]_vars

InitPointers == SettledIdle /\ ScanIdle /\ VisitPointersInit /\ BitIdle /\ CopyIdle /\ LoopIdle

SpecPointers == InitPointers /\ [][VisitPointersNext]_vars

InitBit == SettledIdle /\ ScanIdle /\ PointersIdle /\ BitInit /\ CopyIdle /\ LoopIdle

SpecBit == InitBit /\ [][BitNext]_vars

InitLoop == SettledIdle /\ ScanIdle /\ PointersIdle /\ BitIdle /\ CopyIdle /\ LoopInit

SpecLoop == InitLoop /\ [][LoopNext]_vars

SpecLoopFair == SpecLoop /\ LoopFairness

(***************************************************************************)
(* Properties of the dispatch table, checked under Spec                    *)
(***************************************************************************)

\* C1: a GetVisitorById(id) on the destination that runs while CopyFrom is in
\* its loop returns either the word the slot held when CopyFrom was entered or
\* the word of other's slot id, never a mix of the two.
C1_CopyFromNeverTorn ==
    got.during => got.val \in {pre["dst"][got.id], callbacks_["src"][got.id]}

\* C1 witness: a read during the copy returned the new entry of a slot whose
\* old entry was another callback.
C1_Witness ==
    /\ got.during
    /\ copy_pc = "loop"
    /\ pre["dst"][got.id] \in Callbacks
    /\ callbacks_["src"][got.id] \in Callbacks
    /\ pre["dst"][got.id] # callbacks_["src"][got.id]
    /\ got.val = callbacks_["src"][got.id]

\* C5: while only Register has written the tables, every slot that some
\* Register(id, e) named holds the e of the latest such call, whatever was
\* registered for other ids or on the other table in between, and a slot that
\* no Register named still holds what it held at construction.
C5_RegisterLastWriteWins ==
    copy_pc = Idle =>
        \A t \in Tables, id \in VisitorId :
            GetVisitorById(t, id) =
                IF registered[t][id] # NotRegistered THEN registered[t][id] ELSE kZeroWord

\* C5 witness: a slot was read as one callback, then registered again with
\* another, which it now holds, beside a different slot with its own entry.
C5_Witness ==
    /\ copy_pc = Idle
    /\ got # NoRead
    /\ got.val = UnreachableVisitor
    /\ registered["dst"][got.id] = VisitDataObject
    /\ GetVisitorById("dst", got.id) = VisitDataObject
    /\ \E id2 \in SampleIds \ {got.id} : GetVisitorById("dst", id2) = UnreachableVisitor

\* C6: when CopyFrom has returned, every slot of dst holds what src held at
\* that id when the copy started, and src is as it was.
C6_CopyFromCopiesAll ==
    copy_pc = "done" =>
        /\ \A id \in VisitorId : GetVisitorById("dst", id) = pre["src"][id]
        /\ callbacks_["src"] = pre["src"]

\* C6 witness: a finished copy between tables that differed in every sampled slot.
C6_Witness ==
    /\ copy_pc = "done"
    /\ \A id \in SampleIds : pre["dst"][id] # pre["src"][id]
    /\ \E id \in SampleIds : pre["src"][id] = VisitDataObject

\* C7: GetVisitorById never returns normally for a slot that nothing has
\* written, nor with the entry of a slot registered as unreachable.
C7_UnwrittenSlotFaults ==
    got # NoRead => (~got.unwritten /\ got.val # UnreachableVisitor)

(***************************************************************************)
(* Properties of AtomicValue<T>::SetBits, checked under SpecBits           *)
(***************************************************************************)
AllDone == \A t \in SetBitsThreads : sb[t].pc = "done"

DisjointMasks == \A t \in SetBitsThreads, u \in SetBitsThreads : t # u => BitAnd(sb[t].mask, sb[u].mask) = {}

UnionOfMasks == UNION {sb[t].mask : t \in SetBitsThreads}

\* C3: when all the concurrent SetBits calls, with pairwise disjoint masks,
\* have returned, the cell shows every call's bits under its mask, and the
\* bits outside all the masks are the initial ones.
C3_NoLostUpdate ==
    (AllDone /\ DisjointMasks) =>
        /\ \A t \in SetBitsThreads : BitAnd(value_, sb[t].mask) = sb[t].bits
        /\ BitAnd(value_, BitNot(UnionOfMasks)) = BitAnd(value0, BitNot(UnionOfMasks))

\* C3 witness: two calls with disjoint masks have returned, one of which had
\* to retry because the other's write came between its load and its swap.
C3_Witness ==
    /\ AllDone /\ DisjointMasks
    /\ sb["t1"].retried
    /\ sb["t1"].old_value # value0
    /\ sb["t1"].new_value = value_
    /\ sb["t2"].new_value # value_
    /\ sb["t2"].new_value # value0

\* C4: a SetBits(bits, mask) that ran with no other writer leaves the cell
\* holding (old & ~mask) | bits.
C4_SetBitsSequential ==
    \A t \in SetBitsThreads :
        (sb[t].pc = "done" /\ \A u \in SetBitsThreads \ {t} : sb[u].pc = "idle") =>
            /\ value_ = BitOr(BitAnd(value0, BitNot(sb[t].mask)), sb[t].bits)
            /\ BitAnd(value_, sb[t].mask) = sb[t].bits
            /\ BitAnd(value_, BitNot(sb[t].mask)) = BitAnd(value0, BitNot(sb[t].mask))

\* C4 witness: the cell held 0b0001, SetBits(0b0100, 0b1100) ran alone, and
\* the cell holds 0b0101.
C4_Witness ==
    /\ value0 = {0}
    /\ sb["t1"].pc = "done" /\ sb["t2"].pc = "idle"
    /\ ~sb["t1"].retried
    /\ sb["t1"].bits = {2} /\ sb["t1"].mask = {2, 3}
    /\ value_ = {0, 2}

(***************************************************************************)
(* Properties of AtomicEnumSet<E>, checked under SpecSet                   *)
(***************************************************************************)
\* The elements a word stands for.
Members(word) == {e \in Elements : e \in word}

\* The sequential meaning of a call on a set S of elements.
SeqApply(S, call) ==
    CASE call.kind = "Add" -> S \cup {call.arg}
      [] call.kind = "Remove" -> S \ {call.arg}
      [] call.kind = "Intersect" -> S \cap Members(call.arg)
      [] OTHER -> S

\* The set after the first k calls of the history, run one after the other.
RECURSIVE SeqRun(_)
SeqRun(k) == IF k = 0 THEN Members(bits0) ELSE SeqApply(SeqRun(k - 1), lin[k].call)

SetAllDone == \A t \in SetThreads : es[t].pc = "idle" /\ es[t].n = SetBudget[t]

\* C2: the calls, in the order in which their swap succeeded or their load
\* ran, form a sequential run that respects each thread's own order, in which
\* the set always holds what the calls so far produce (so the final Contains
\* results are those of that sequential run) and every Contains returned what
\* the calls before it had produced.
C2_SetLinearizable ==
    /\ Members(bits_) = SeqRun(Len(lin))
    /\ bits_ \subseteq Elements
    /\ \A k \in 1..Len(lin) :
          lin[k].call.kind = "Contains" => lin[k].result = (lin[k].call.arg \in SeqRun(k - 1))
    /\ \A j \in 1..Len(lin), k \in 1..Len(lin) :
          (j < k /\ lin[j].t = lin[k].t) => lin[j].n < lin[k].n
    /\ SetAllDone =>
          \A t \in SetThreads : Cardinality({k \in 1..Len(lin) : lin[k].t = t}) = SetBudget[t]

\* C2 witness: all calls have returned, one thread's swap failed and was
\* retried, and the other thread's calls enclose it in the order.
C2_Witness ==
    /\ SetAllDone
    /\ Len(lin) = 3
    /\ lin[1].t = "a" /\ lin[2].t = "b" /\ lin[3].t = "a"
    /\ lin[1].call.kind = "Add" /\ lin[2].call.kind = "Remove" /\ lin[3].call.kind = "Contains"
    /\ lin[1].call.arg # lin[2].call.arg
    /\ es["b"].retried
    /\ lin[3].result

(***************************************************************************)
(* Properties of the visitor-identity assignment, checked under SpecId     *)
(***************************************************************************)
PlainCall == idOut # NoId /\ idIn.type_tag = "PlainData"

SpecializedSizes(l) == kMinObjectSizeInWords..l.N

SpecializedIds(l) == l.base_id..(l.base_id + l.N - kMinObjectSizeInWords)

RECURSIVE WalkFrom(_, _)
WalkFrom(o, fuel) ==
    IF o = Undefined THEN <<>>
    ELSE IF fuel = 0 THEN <<o>>
    ELSE <<o>> \o WalkFrom(wl.next[o], fuel - 1)

\* The replacements of the retained nodes k..n of the input, in input order.
RECURSIVE RetainedFrom(_)
RetainedFrom(k) ==
    IF k > wl.n THEN <<>>
    ELSE IF wl.retainer[k] = Dead THEN RetainedFrom(k + 1)
    ELSE <<wl.retainer[k]>> \o RetainedFrom(k + 1)

\* C10: the list returned holds exactly the retainer's replacements of the
\* nodes it kept, in the input's order, and nothing else: no dead node and no
\* abandoned original of a relocated node; its head is the replacement of
\* the first node kept, or the empty list when none is kept.
C10_PruneKeepsRetainedInOrder ==
    wl.pc = "done" =>
        /\ WalkFrom(wl.head, 2 * wl.n) = RetainedFrom(1)
        /\ wl.head = (IF RetainedFrom(1) = <<>> THEN Undefined ELSE RetainedFrom(1)[1])

\* C10 witness: of three nodes the first and third (indices 0 and 2) are
\* dead and the second is kept as its relocated copy, which is the head and
\* the whole result.
C10_Witness ==
    /\ wl.pc = "done"
    /\ wl.n = 3
    /\ wl.retainer = <<Dead, MovedTo(3, 2), Dead>>
    /\ wl.head = MovedTo(3, 2)
    /\ WalkFrom(wl.head, 6) = <<MovedTo(3, 2)>>

\* C11: every read of a next field is of a node whose link the traversal
\* has not rewritten and that has not yet been replaced by its relocated
\* copy: the next reference of a node is read before the node is passed
\* through the retainer and before any link is rewritten for it, so each
\* input node is read exactly once, in input order, from its original.
C11_ReadsNextBeforeRelinking ==
    /\ \A i \in 1..Len(wl.reads) :
          /\ ~wl.reads[i].rewritten
          /\ ~wl.reads[i].moved
          /\ wl.reads[i].obj = i
    /\ wl.pc = "done" => Len(wl.reads) = wl.n

\* C11 witness: the retainer relocates every one of three nodes, the
\* traversal has read three next fields and relinked the copies.
C11_Witness ==
    /\ wl.pc = "done"
    /\ wl.n = 3
    /\ \A k \in 1..3 : wl.retainer[k] = MovedTo(3, k)
    /\ Len(wl.reads) = 3
    /\ wl.moved = {1, 2, 3}
    /\ wl.rewritten = {MovedTo(3, 1), MovedTo(3, 2)}
    /\ WalkFrom(wl.head, 6) = <<MovedTo(3, 1), MovedTo(3, 2), MovedTo(3, 3)>>


(***************************************************************************)
(* Properties of the body visitors, checked under SpecVisit                *)
(***************************************************************************)
\* The slots a log hands to the per-slot callback, in order.
SlotsOf(log) ==
    LET pointers == SelectSeq(log, LAMBDA e : e.kind = "VisitPointer")
    IN  [i \in 1..Len(pointers) |-> pointers[i].slot]

\* The slots from to up to, but not including, to.
SlotRange(from, to) == [i \in 1..(to - from) |-> from + i - 1]

\* How often a log hands the slot to the per-slot callback.
TimesVisited(log, slot) == Cardinality({i \in 1..Len(log) : log[i] = Event("VisitPointer", slot)})

\* The positions of the events of a kind in a log.
PositionsOf(log, kind) == {i \in 1..Len(log) : log[i].kind = kind}

\* The completed visits by a visitor.
RunsOf(visitor) == {i \in 1..Len(vis.runs) : vis.runs[i].visitor = visitor}

\* C12: FixedBodyVisitor::Visit returns the descriptor's kSize whatever the
\* map says, and hands each declared slot, kStartOffset up to kEndOffset, to
\* the per-slot callback exactly once, in the same order on every call.
C12_FixedVisitReturnsKSize ==
    /\ \A i \in RunsOf("FixedBodyVisitor") :
          /\ vis.runs[i].result = vis.object.kSize
          /\ SlotsOf(vis.runs[i].log) = SlotRange(vis.object.kStartOffset, vis.object.kEndOffset)
          /\ \A slot \in 0..(MaxObjectWords + 1) :
                TimesVisited(vis.runs[i].log, slot) =
                    IF slot \in vis.object.kStartOffset..(vis.object.kEndOffset - 1) THEN 1 ELSE 0
    /\ \A i, j \in RunsOf("FixedBodyVisitor") : vis.runs[i].log = vis.runs[j].log

\* C12 witness: an object of two slots whose kSize differs from the size
\* its map holds has been visited twice.
C12_Witness ==
    /\ Len(vis.runs) = 2
    /\ RunsOf("FixedBodyVisitor") = {1, 2}
    /\ vis.object.kEndOffset - vis.object.kStartOffset = 2
    /\ vis.object.kSize # vis.object.instance_size
    /\ vis.runs[2].result = vis.object.kSize
    /\ Len(SlotsOf(vis.runs[2].log)) = 2

\* C13: FlexibleBodyVisitor::Visit computes the size with SizeOf before it
\* iterates the body, iterates the slots from kStartOffset up to that size,
\* returns that size, and never hands the per-slot callback a slot outside
\* the object's size words.
C13_FlexibleVisitUsesOneSize ==
    /\ \A i \in RunsOf("FlexibleBodyVisitor") :
          LET log == vis.runs[i].log
          IN  /\ vis.runs[i].result = SizeOf(vis.object)
              /\ SlotsOf(log) = SlotRange(vis.object.kStartOffset, SizeOf(vis.object))
              /\ \A a \in PositionsOf(log, "SizeOf"), b \in PositionsOf(log, "IterateBody") : a < b
              /\ Cardinality(PositionsOf(log, "SizeOf")) = 1
    /\ vis.cur.visitor = "FlexibleBodyVisitor" =>
          /\ \A i \in 1..Len(SlotsOf(vis.cur.log)) :
                SlotsOf(vis.cur.log)[i] \in 0..(SizeOf(vis.object) - 1)
          /\ vis.cur.pc = "slots" => vis.cur.end = vis.cur.object_size

\* C13 witness: a flexible object of four words, three of them slots, has
\* been visited.
C13_Witness ==
    /\ RunsOf("FlexibleBodyVisitor") # {}
    /\ vis.object.instance_size = 4
    /\ vis.object.kStartOffset = 1
    /\ \E i \in RunsOf("FlexibleBodyVisitor") :
          vis.runs[i].result = 4 /\ SlotsOf(vis.runs[i].log) = <<1, 2, 3>>

C15_TracerNotifiedAfterBody ==
    \A i \in RunsOf("JSApiObjectVisitor") :
        LET log == vis.runs[i].log
        IN  /\ PositionsOf(log, "TracePossibleWrapper") # {} <=> vis.in_use
            /\ PositionsOf(log, "IterateBody") # {}
            /\ \A t \in PositionsOf(log, "TracePossibleWrapper") :
                  \A b \in PositionsOf(log, "IterateBody") \cup PositionsOf(log, "VisitPointer") : t > b

\* C15: JSApiObjectVisitor notifies the tracer once, before the body
\* traversal begins, exactly when the tracer is in use, and traverses the
\* body, every slot from kStartOffset to the object's size, either way.
C15_TracerNotifiedBeforeBody ==
    \A i \in RunsOf("JSApiObjectVisitor") :
        LET log == vis.runs[i].log
        IN  /\ PositionsOf(log, "TracePossibleWrapper") = (IF vis.in_use THEN {1} ELSE {})
            /\ PositionsOf(log, "IterateBody") # {}
            /\ SlotsOf(log) = SlotRange(vis.object.kStartOffset, SizeOf(vis.object))
            /\ \A t \in PositionsOf(log, "TracePossibleWrapper") :
                  \A b \in PositionsOf(log, "IterateBody") \cup PositionsOf(log, "VisitPointer") : t < b

\* C15 witness: with the tracer in use, an object with two slots has been
\* visited by JSApiObjectVisitor: the tracer was notified and both slots
\* were visited.
C15_Witness ==
    /\ vis.in_use
    /\ \E i \in RunsOf("JSApiObjectVisitor") :
          /\ PositionsOf(vis.runs[i].log, "TracePossibleWrapper") # {}
          /\ Len(SlotsOf(vis.runs[i].log)) = 2

\* C20: when ShouldVisit answers false, HeapVisitor's default hands no slot
\* to the per-slot callback; when it answers true, the default iterates the
\* body through the object's body descriptor and returns the object's size.
C20_ShouldVisitGuardsBody ==
    /\ ~vis.should_visit =>
          /\ \A i \in RunsOf("HeapVisitor") : SlotsOf(vis.runs[i].log) = <<>>
          /\ vis.cur.visitor = "HeapVisitor" => SlotsOf(vis.cur.log) = <<>>
    /\ vis.should_visit =>
          \A i \in RunsOf("HeapVisitor") :
              /\ SlotsOf(vis.runs[i].log) =
                    SlotRange(vis.object.kStartOffset, IterateBodyEnd(vis.object, SizeOf(vis.object)))
              /\ vis.runs[i].result = SizeOf(vis.object)

\* C20 witness: ShouldVisit answers false for an object with two slots, and
\* HeapVisitor's default has returned without visiting a slot.
C20_Witness ==
    /\ ~vis.should_visit
    /\ vis.object.kind = "flexible"
    /\ vis.object.instance_size - vis.object.kStartOffset = 2
    /\ RunsOf("HeapVisitor") # {}
    /\ \A i \in RunsOf("HeapVisitor") : vis.runs[i].log = <<>>

(***************************************************************************)
(* Properties of AtomicNumber, checked under SpecNumber                    *)
(***************************************************************************)
\* What a call adds to the cell.
NumberEffect(call) == IF call.op = "Increment" THEN call.amount ELSE 0 - call.amount

\* The sum of the effects of the first k calls that took effect.
RECURSIVE NumberSum(_)
NumberSum(k) == IF k = 0 THEN 0 ELSE NumberSum(k - 1) + NumberEffect(num.log[k])

\* C16: Increment and Decrement are atomic read-modify-writes that return
\* the value after the update.  However the calls of the threads interleave,
\* the cell holds its initial value plus the increments minus the
\* decrements made so far, and each call returned the initial value plus
\* the effects of the calls up to and including itself, in the order the
\* calls took effect (all in the cell's wrapping arithmetic).
C16_IncrementIsAtomic ==
    /\ NumberValue = NumberCast(num.initial + NumberSum(Len(num.log)))
    /\ \A k \in 1..Len(num.log) :
          num.log[k].result = NumberCast(num.initial + NumberSum(k))

\* C16 witness: both threads have made their calls, increments and
\* decrements of both threads interleaved.
C16_Witness ==
    /\ \A t \in NumberThreads : num.left[t] = 0
    /\ Len(num.log) = 4
    /\ num.log[1].thread = "t1" /\ num.log[1].op = "Increment"
    /\ num.log[2].thread = "t2" /\ num.log[2].op = "Decrement"
    /\ num.log[3].thread = "t1" /\ num.log[3].op = "Decrement"
    /\ num.log[4].thread = "t2" /\ num.log[4].op = "Increment"
    /\ num.log[1].amount = 2 /\ num.log[2].amount = 1
    /\ num.log[3].amount = 2 /\ num.log[4].amount = 2
    /\ NumberValue = NumberCast(num.initial + 1)

(***************************************************************************)
(* Properties of AsAtomic32::SetBits, checked under SpecAtomic32           *)
(***************************************************************************)
\* C17: a call of SetBits that has returned returned false, having written
\* nothing, exactly when the value it read last had the masked bits as
\* asked; otherwise it returned true after exactly one swap, which found
\* the value the call had read and put (old & ~mask) | bits in its place.
\* A thread's second call with the same arguments, with no write by another
\* thread since its first call returned, returns false and leaves the cell
\* as it was.  A call that has not returned has written nothing.
C17_SetBits32ReportsChange ==
    \A t \in Atomic32Threads :
        LET call == a32.th[t]
            returned == call.pc = "ready" /\ call.calls > 0
        IN  /\ (returned /\ ~call.result) =>
                  (call.old_value \cap call.mask = call.bits /\ call.writes = 0)
            /\ (returned /\ call.result) =>
                  /\ call.old_value \cap call.mask # call.bits
                  /\ call.writes = 1
                  /\ call.found = call.old_value
                  /\ call.put = (call.old_value \ call.mask) \cup call.bits
            /\ call.pc # "ready" => call.writes = 0
            /\ (returned /\ call.calls > 1 /\ call.quiet) => (~call.result /\ call.same)

\* C17 witness: a thread's first call changed two bits and returned true;
\* its second, with no write in between, has returned false and left the
\* cell as it was.
C17_Witness ==
    \E t \in Atomic32Threads :
        LET call == a32.th[t]
        IN  /\ call.pc = "ready"
            /\ call.calls = 2
            /\ call.quiet
            /\ Cardinality(call.mask) = 2
            /\ call.put # call.found
            /\ a32.cell = call.put
            /\ ~call.result

(***************************************************************************)
(* Properties of AtomicEnumSet with one caller, checked under SpecEnum     *)
(***************************************************************************)
\* The elements of E a word holds.
EnumMembers(word) == {e \in Elements : WordBit(word, e) = 1}

\* C18: with one caller, Add(e) leaves S with e added, Remove(e) S without
\* e, Add(T) the union, Remove(T) the difference, Intersect(T) the
\* intersection, and RemoveAll the empty set; Contains(e) answers whether e
\* is in S, ContainsAnyOf(T) whether S and T meet, IsEmpty whether S is
\* empty, == and != whether S is T, and | returns the union; the six that
\* only read leave the set as it was.  No call sets a bit outside E.
C18_EnumSetIsASet ==
    LET S == EnumMembers(sq.before)
        T == EnumMembers(sq.call.arg)
        after == EnumMembers(sq.bits_)
        kind == sq.call.kind
    IN  /\ sq.bits_ \in EnumSets
        /\ kind = "Add" => after = S \cup {sq.call.arg}
        /\ kind = "Remove" => after = S \ {sq.call.arg}
        /\ kind = "AddSet" => after = S \cup T
        /\ kind = "RemoveSet" => after = S \ T
        /\ kind = "Intersect" => after = S \cap T
        /\ kind = "RemoveAll" => after = {} /\ sq.bits_ = 0
        /\ kind = "Contains" => sq.answer = (sq.call.arg \in S)
        /\ kind = "ContainsAnyOf" => sq.answer = (S \cap T # {})
        /\ kind = "IsEmpty" => sq.answer = (S = {})
        /\ kind = "Equals" => sq.answer = (S = T)
        /\ kind = "NotEquals" => sq.answer = (S # T)
        /\ kind = "Union" => EnumMembers(sq.union) = S \cup T
        /\ kind \in {"Contains", "ContainsAnyOf", "IsEmpty", "Equals", "NotEquals", "Union"} =>
              sq.bits_ = sq.before

\* C18 witness: Remove(T) has taken the one element of T out of a set of two
\* elements.
C18_Witness ==
    /\ sq.call.kind = "RemoveSet"
    /\ EnumMembers(sq.before) = {0, 1}
    /\ EnumMembers(sq.call.arg) = {1}
    /\ EnumMembers(sq.bits_) = {0}

(***************************************************************************)
(* Properties of the table's range checks, checked under SpecRange         *)
(***************************************************************************)
\* C19: an id outside [0, kVisitorIdCount) handed to Register or
\* GetVisitorById ends the process: no call with such an id returns, no
\* storage outside the table's slots is written or read.
C19_OutOfRangeIsFatal ==
    /\ ~rg.stored_outside
    /\ ~rg.loaded_outside
    /\ (rg.last.op # "none" /\ rg.last.id \notin VisitorId) =>
          (~rg.last.returned /\ rg.status # "running")

(***************************************************************************)
(* Properties of the linear scan, checked under SpecScan                   *)
(***************************************************************************)
\* C21: IterateBody returns the size of the object it visits, for a data
\* object the specialization's constant or the map's instance size, with no
\* slot handed to the per-slot callback; so the scan visits the objects of
\* the region once each, in address order, each at its address, never loses
\* the objects' bounds, and ends with every object visited and the cursor
\* at the region's end.
C21_ScanVisitsEachObjectOnce ==
    /\ sc.pc # "lost"
    /\ Len(sc.visits) <= Len(sc.region)
    /\ \A i \in 1..Len(sc.visits) :
          /\ sc.visits[i].object = i
          /\ sc.visits[i].address = StartOf(sc.region, i)
          /\ sc.visits[i].result = sc.region[i].size
          /\ sc.region[i].category \in DataObjects => sc.visits[i].slots = 0
    /\ sc.cursor = StartOf(sc.region, Len(sc.visits) + 1)
    /\ sc.pc = "done" => (Len(sc.visits) = Len(sc.region) /\ sc.cursor = RegionEnd(sc.region))

\* C21 witness: a region of a generic data object, a specialized one and a
\* byte array, of different sizes, has been scanned to its end.
C21_Witness ==
    /\ sc.pc = "done"
    /\ Len(sc.region) = 3
    /\ sc.region[1] = ScanObject("DataObject", 3)
    /\ sc.region[2] = ScanObject("DataObjectSpecialized", 2)
    /\ sc.region[3] = ScanObject("ByteArray", 3)
    /\ Len(sc.visits) = 3
    /\ sc.cursor = 8

(***************************************************************************)
(* Properties of CopyFrom beside a reader, checked under SpecCopy          *)
(***************************************************************************)
\* At every point of the copy the slots below i hold other's entries and
\* the slots from i on hold what dst held when the copy was entered.
CopiedPrefix ==
    /\ cp.i \in 0..kVisitorIdCount
    /\ \A id \in VisitorId :
          cp.dst[id] = IF id < cp.i THEN cp.src[id] ELSE cp.pre[id]

\* The reader's result k is the entry other holds, and dst held another.
ReadNew(k) == cp.reads[k].val = cp.src[cp.reads[k].id] /\ cp.pre[cp.reads[k].id] # cp.src[cp.reads[k].id]

\* The reader's result k is the entry dst held before the copy, and other
\* holds another.
ReadOld(k) == cp.reads[k].val = cp.pre[cp.reads[k].id] /\ cp.pre[cp.reads[k].id] # cp.src[cp.reads[k].id]

C25_VisitPointersVisitsRange ==
    /\ vp.calls = SlotRange(vp.start, vp.p)
    /\ \A i \in 1..Len(vp.calls) : vp.start <= vp.calls[i] /\ vp.calls[i] < vp.end
    /\ \A i, j \in 1..Len(vp.calls) : i < j => vp.calls[i] < vp.calls[j]
    /\ vp.start >= vp.end => vp.calls = <<>>
    /\ vp.pc = "done" =>
          \A slot \in 0..(MaxAddress + 1) :
              Cardinality({i \in 1..Len(vp.calls) : vp.calls[i] = slot}) =
                  IF vp.start <= slot /\ slot < vp.end THEN 1 ELSE 0

\* C25 witness: VisitPointers(heap, object, 2, 5) has returned after three
\* calls, for the slots 2, 3 and 4.
C25_Witness ==
    /\ vp.pc = "done"
    /\ vp.start = 2
    /\ vp.end = 5
    /\ vp.calls = <<2, 3, 4>>

(***************************************************************************)
(* Properties of SetBit and ClearBit, checked under SpecBit                *)
(***************************************************************************)
\* C24: for every bit index of a word-sized T, SetBit(b) sets bit b and
\* ClearBit(b) clears bit b, and each leaves every other bit as it was.
C24_SetBitClearBitTouchOneBit ==
    Len(bt.calls) > 0 =>
        LET call == bt.calls[Len(bt.calls)]
        IN  bt.value_ = IF call.op = "SetBit" THEN call.before \cup {call.bit}
                        ELSE call.before \ {call.bit}

(***************************************************************************)
(* Properties of the retry loops, checked under SpecLoopFair               *)
(***************************************************************************)
\* A step in which a thread other than t writes the cell.
WriteByOther(t) ==
    \E u \in LoopThreads \ {t} : LoopCompareAndSwap(u) /\ lp.th[u].old_value = lp.cell

\* A thread is inside a call.
InLoop(t) == lp.th[t].pc \in {"load", "cas"}

====
